---------------------------- MODULE Spec2Model ----------------------------
(***************************************************************************)
(* Cliff Click's combined analysis (ir/opt/combo.c): optimistic constant   *)
(* propagation over a lattice combined with partition refinement of the    *)
(* IR nodes into congruence classes.                                       *)
(*                                                                         *)
(* The state is the IR graph (irg, fixed during the analysis), the sorted  *)
(* Def-Use edges of every IR node (outs), the node_t record of every IR    *)
(* node (node), the partition_t records (partition), the environment_t     *)
(* (env) and the position inside combo() (pc).  owed is a history          *)
(* variable: the partitions in which a race has made a Follower a Leader   *)
(* and that no propagate step has handed to split_by since.                *)
(***************************************************************************)
EXTENDS Integers, Sequences, FiniteSets, TLC

VARIABLES irg, outs, node, partition, env, pc, trace, changes, log, owed

vars == <<irg, outs, node, partition, env, pc, trace, changes, log, owed>>

(***************************************************************************)
(* Bounds of the model.                                                    *)
(***************************************************************************)
\* constants of the graphs are drawn from 0..MaxVal
MaxVal == 1

(***************************************************************************)
(* Generic helpers on sequences.                                           *)
(***************************************************************************)
Range(q) == {q[i] : i \in 1..Len(q)}

Remove(q, x) == SelectSeq(q, LAMBDA y_l : y_l # x)

RECURSIVE Reverse(_)
Reverse(q) == IF q = <<>> THEN <<>> ELSE Append(Reverse(Tail(q)), Head(q))

Max2(a, b) == IF a > b THEN a ELSE b

\* the elements of a set of integers as an ascending sequence
RECURSIVE SetToSeq(_)
SetToSeq(S) ==
    IF S = {} THEN <<>>
    ELSE LET m == CHOOSE x \in S : \A y \in S : x <= y
         IN <<m>> \o SetToSeq(S \ {m})

(***************************************************************************)
(* Tarvals and lattice elements.  A lattice element is a record            *)
(* [k, m, v]: kind, mode and value.                                        *)
(***************************************************************************)
tarval_top       == [k |-> "top",       m |-> "ANY", v |-> 0]
tarval_bottom    == [k |-> "bottom",    m |-> "ANY", v |-> 0]
tarval_reachable == [k |-> "reachable", m |-> "X",   v |-> 0]
\* combo.c redefines tarval_unreachable to be Top
tarval_unreachable == tarval_top
tarval_undefined == tarval_top
tarval_bad       == tarval_bottom
tarval_b_false   == [k |-> "tv", m |-> "b", v |-> 0]
tarval_b_true    == [k |-> "tv", m |-> "b", v |-> 1]

new_tarval(mode, val) == [k |-> "tv", m |-> mode, v |-> val]
sym_entity(e)         == [k |-> "sym", m |-> "P", v |-> e]

is_tarval(t)          == t.k # "sym"
tarval_is_constant(t) == t.k = "tv"
get_mode_null(mode)   == new_tarval(mode, 0)
get_mode_one(mode)    == new_tarval(mode, 1)
get_mode_all_one(mode) == new_tarval(mode, -1)
tarval_is_null(t)     == t.k = "tv" /\ t.v = 0
tarval_is_one(t)      == t.k = "tv" /\ t.v = 1
tarval_is_all_one(t)  == t.k = "tv" /\ t.v = -1
mode_is_float(mode)   == mode = "F"

\* two's complement arithmetic of the 32 bit integer mode
\* the values of mode Bs: 8 bits, signed
Wrap(x) == ((x + 128) % 256) - 128
Unsigned(x) == x % 256

RECURSIVE XorNat(_, _)
XorNat(a, b) ==
    IF a = 0 THEN b
    ELSE IF b = 0 THEN a
    ELSE ((a + b) % 2) + 2 * XorNat(a \div 2, b \div 2)

RECURSIVE AndNat(_, _)
AndNat(a, b) ==
    IF a = 0 \/ b = 0 THEN 0
    ELSE ((a % 2) * (b % 2)) + 2 * AndNat(a \div 2, b \div 2)

tarval_add(a, b) == new_tarval(a.m, Wrap(a.v + b.v))
tarval_sub(a, b, mode) == new_tarval(mode, Wrap(a.v - b.v))
tarval_mul(a, b) == new_tarval(a.m, Wrap(a.v * b.v))
tarval_eor(a, b) == new_tarval(a.m, Wrap(XorNat(Unsigned(a.v), Unsigned(b.v))))
tarval_and(a, b) == new_tarval(a.m, Wrap(AndNat(Unsigned(a.v), Unsigned(b.v))))

\* ir_relation bits
ir_relation_equal   == 1
ir_relation_less    == 2 * ir_relation_equal
ir_relation_greater == 2 * ir_relation_less

RelIncludes(rel, bit) == (rel \div bit) % 2 = 1

tarval_cmp(a, b) ==
    IF a.v = b.v THEN ir_relation_equal
    ELSE IF a.v < b.v THEN ir_relation_less
    ELSE ir_relation_greater

(***************************************************************************)
(* The IR.  An ir_node is a record: opcode, mode, block (input -1, 0 for   *)
(* Blocks), the inputs in[1..arity] (input i of the code is in[i+1]), an   *)
(* attribute (Const value, Proj number, Cmp relation) and, for Blocks,     *)
(* the list of the Phis of the Block.                                      *)
(***************************************************************************)
pn_Start == [X_initial_exec |-> 0, M |-> 1, T_args |-> 3]
pn_Cond_false           == 0
pn_Cond_true            == 1
pn_Switch_default       == 0

IrNode(op, mode, blk, in, attr) ==
    [op |-> op, mode |-> mode, blk |-> blk, in |-> in, attr |-> attr,
     phis |-> <<>>, table |-> <<>>]

\* an entry of an ir_switch_table: the values min..max lead to Proj pn
ir_switch_table_entry(min, max, pn) == [min |-> min, max |-> max, pn |-> pn]
get_Switch_table(n) == irg[n].table

Nodes == 1..Len(irg)

get_irn_opcode(n) == irg[n].op
get_irn_mode(n)   == irg[n].mode
get_irn_arity(n)  == Len(irg[n].in)
get_irn_n(n, i)   == IF i = -1 THEN irg[n].blk ELSE irg[n].in[i + 1]
is_Block(n)       == irg[n].op = "Block"
is_Phi(n)         == irg[n].op = "Phi"
is_Proj(n)        == irg[n].op = "Proj"
is_Cond(n)        == irg[n].op = "Cond"
is_Switch(n)      == irg[n].op = "Switch"
get_Proj_proj(n)  == irg[n].attr
get_Proj_pred(n)  == irg[n].in[1]
get_nodes_block(n) == irg[n].blk
get_Block_cfgpred(b, i)  == irg[b].in[i + 1]
get_Block_n_cfgpreds(b)  == Len(irg[b].in)
get_Block_phis(b) == irg[b].phis

RECURSIVE skip_Proj(_)
skip_Proj(n) == IF is_Proj(n) THEN skip_Proj(get_Proj_pred(n)) ELSE n

CommutativeOps == {"Add", "Mul", "Eor", "And", "Or"}
is_op_commutative(op) == op \in CommutativeOps

\* opcodes whose nodes are pinned to their Block
PinnedOps == {"Block", "Start", "End", "Jmp", "Cond", "Switch", "Return",
              "Phi", "Call", "Confirm"}
is_pinned(n) == irg[n].op \in PinnedOps


(***************************************************************************)
(* The analysis state handed through the operations of the engine:         *)
(* o = Def-Use edges, n = node_t records, p = partition_t records,         *)
(* e = environment_t, t = the partition snapshots taken where the code     *)
(* calls check_partition(), c = the type changes of the operation, l = the *)
(* decisions of the operation in the order in which it takes them.         *)
(***************************************************************************)
State ==
    [o |-> outs, n |-> node, p |-> partition, e |-> env,
     t |-> IF trace = <<>> THEN <<>> ELSE <<trace[Len(trace)]>>,
     c |-> {}, l |-> <<>>]

get_irn_n_outs(s, n) == Len(s.o[n])
\* get_irn_out(irn, i), i counted from 0 as in the code
get_irn_out(s, n, i) == s.o[n][i + 1].use

RECURSIVE Fold(_, _, _)
\* s := Op(s, q[1]); s := Op(s, q[2]); ...  The sequence is taken by halves,
\* the first half evaluated before the second is entered (the test on acc1_f
\* holds of no value).
Fold(Op_f(_, _), acc_f, seq_f) ==
    IF seq_f = <<>> THEN acc_f
    ELSE IF Len(seq_f) = 1 THEN Op_f(acc_f, seq_f[1])
    ELSE LET acc1_f == Fold(Op_f, acc_f, SubSeq(seq_f, 1, Len(seq_f) \div 2))
         IN IF {acc1_f} = {} THEN acc1_f
            ELSE Fold(Op_f, acc1_f,
                      SubSeq(seq_f, (Len(seq_f) \div 2) + 1, Len(seq_f)))

RECURSIVE Steps(_, _, _, _)
\* at most k times: if (Done(v)) break; v = Step(v);  taken by halves
Steps(Step_f(_), Done_f(_), v_f, k_f) ==
    IF Done_f(v_f) THEN v_f
    ELSE IF k_f <= 1 THEN Step_f(v_f)
    ELSE LET half_f == Steps(Step_f, Done_f, v_f, k_f \div 2)
         IN IF Done_f(half_f) THEN half_f
            ELSE Steps(Step_f, Done_f, half_f, k_f - (k_f \div 2))

RECURSIVE WhileFrom(_, _, _, _)
WhileFrom(Step_f(_), Done_f(_), v_f, k_f) ==
    LET v1_f == Steps(Step_f, Done_f, v_f, k_f)
    IN IF Done_f(v1_f) THEN v1_f
       ELSE WhileFrom(Step_f, Done_f, v1_f, 2 * k_f)

\* while (!Done(v)) v = Step(v);
While(Step_f(_), Done_f(_), v_f) == WhileFrom(Step_f, Done_f, v_f, 16)

Panic(s, what) == [s EXCEPT !.e.panic = @ \cup {what}]

\* assert(cond) of the code
Expect(s, cond, what) == IF cond THEN s ELSE Panic(s, what)

get_first_node(s, X) == Head(s.p[X].Leader)

get_partition_type(s, X) == s.n[get_first_node(s, X)].type

\* the snapshot of the lists that check_partition() walks
Snapshot(s, at) ==
    [part |-> [x \in DOMAIN s.n |-> s.n[x].part],
     is_follower |-> [x \in DOMAIN s.n |-> s.n[x].is_follower],
     flagged |-> [x \in DOMAIN s.n |-> s.n[x].flagged],
     Leader |-> [X \in DOMAIN s.p |-> s.p[X].Leader],
     Follower |-> [X \in DOMAIN s.p |-> s.p[X].Follower],
     n_leader |-> [X \in DOMAIN s.p |-> s.p[X].n_leader],
     type |-> [x \in DOMAIN s.n |-> s.n[x].type],
     type_is_T_or_C |-> [X \in DOMAIN s.p |-> s.p[X].type_is_T_or_C],
     at |-> at]

\* the lists as they are now, appended to the trace
take_snapshot(s, at) == [s EXCEPT !.t = Append(@, Snapshot(s, at))]

check_partition(s, T) ==
    LET okL(P) == \A i \in 1..Len(P.Leader) :
                    /\ s.n[P.Leader[i]].is_follower = 0
                    /\ s.n[P.Leader[i]].flagged = 0
                    /\ s.n[P.Leader[i]].part = T
        okF(P) == \A i \in 1..Len(P.Follower) :
                    /\ s.n[P.Follower[i]].is_follower = 1
                    /\ s.n[P.Follower[i]].flagged = 0
                    /\ s.n[P.Follower[i]].part = T
        check(P) == Expect(s, okL(P) /\ Len(P.Leader) = P.n_leader /\ okF(P),
                           "check_partition")
    IN check(s.p[T])

add_to_worklist(s, X) ==
    LET s1 == Expect(s, s.p[X].on_worklist = 0, "add_to_worklist")
    IN [s1 EXCEPT !.p[X].on_worklist = 1,
                  !.e.worklist = <<X>> \o @]

EmptyPartition ==
    [Leader |-> <<>>, Follower |-> <<>>, cprop |-> <<>>, cprop_X |-> <<>>,
     touched |-> <<>>, n_leader |-> 0, n_touched |-> 0,
     max_user_inputs |-> 0, on_worklist |-> 0, on_touched |-> 0,
     on_cprop |-> 0, type_is_T_or_C |-> 0]

\* the new partition is Len(s.p) afterwards
new_partition(s) == [s EXCEPT !.p = Append(@, EmptyPartition)]

\* a list_del that unlinks x from a Follower list only
list_del_node_follower(P, x) ==
    (<<>> \o [X \in DOMAIN P |-> [P[X] EXCEPT !.Follower = Remove(@, x)]])

\* list_del(&node->node_list): unlink x from the Leader/Follower list it is on
list_del_node(P, x) ==
    (<<>> \o [X \in DOMAIN P |-> [P[X] EXCEPT !.Leader = Remove(@, x),
                                    !.Follower = Remove(@, x)]])

add_to_touched(s, y) ==
    IF s.n[y].on_touched = 0
    THEN LET part == s.n[y].part
             s1 == [s EXCEPT !.p[part].touched = <<y>> \o @,
                             !.n[y].on_touched = 1,
                             !.p[part].n_touched = @ + 1]
         IN IF s1.p[part].on_touched = 0
            THEN [s1 EXCEPT !.e.touched = <<part>> \o @,
                            !.p[part].on_touched = 1]
            ELSE s1
    ELSE s

RECURSIVE add_to_cprop(_, _)
\* an add_to_cprop that queues every node on the lists of the first partition
add_to_cprop_first(s, y) ==
    LET \* place its partition on the cprop list
        place(s0, Y) ==
            IF s0.p[Y].on_cprop = 0
            THEN [s0 EXCEPT !.e.cprop = <<Y>> \o @, !.p[Y].on_cprop = 1]
            ELSE s0
        queue(skipped, Y) ==
            place(IF is_Cond(skipped) \/ is_Switch(skipped)
                  THEN [s EXCEPT !.p[Y].cprop_X = Append(@, y),
                                 !.n[y].on_cprop = 1]
                  ELSE [s EXCEPT !.p[Y].cprop = Append(@, y),
                                 !.n[y].on_cprop = 1],
                  Y)
        users(s1) ==
            IF get_irn_mode(y) = "T"
            THEN Fold(add_to_cprop, s1,
                      Reverse(<<>> \o [i \in 1..Len(s.o[y]) |-> s.o[y][i].use]))
            ELSE IF is_Block(y)
            THEN Fold(add_to_cprop, s1, get_Block_phis(y))
            ELSE s1
    IN users(IF s.n[y].on_cprop = 0 THEN queue(skip_Proj(y), 1)
             ELSE s)

add_to_cprop(s, y) ==
    LET \* place its partition on the cprop list
        place(s0, Y) ==
            IF s0.p[Y].on_cprop = 0
            THEN [s0 EXCEPT !.e.cprop = <<Y>> \o @, !.p[Y].on_cprop = 1]
            ELSE s0
        queue(skipped, Y) ==
            place(IF is_Cond(skipped) \/ is_Switch(skipped)
                  THEN [s EXCEPT !.p[Y].cprop_X = Append(@, y),
                                 !.n[y].on_cprop = 1]
                  ELSE [s EXCEPT !.p[Y].cprop = Append(@, y),
                                 !.n[y].on_cprop = 1],
                  Y)
        users(s1) ==
            IF get_irn_mode(y) = "T"
            THEN Fold(add_to_cprop, s1,
                      Reverse(<<>> \o [i \in 1..Len(s.o[y]) |-> s.o[y][i].use]))
            ELSE IF is_Block(y)
            THEN Fold(add_to_cprop, s1, get_Block_phis(y))
            ELSE s1
    IN users(IF s.n[y].on_cprop = 0 THEN queue(skip_Proj(y), s.n[y].part)
             ELSE s)

\* the partition update_worklist adds, with what it decides on
update_worklist_adds(s, Z, Z_prime, added) ==
    [s EXCEPT !.l = Append(@, [at |-> "update_worklist", Z |-> Z,
                               Z_prime |-> Z_prime, added |-> added,
                               on_worklist |-> s.p[Z].on_worklist,
                               n_leader |-> s.p[Z].n_leader,
                               n_leader_prime |-> s.p[Z_prime].n_leader])]

\* an update that looks at the sizes only
update_worklist_smaller(s, Z, Z_prime) ==
    IF s.p[Z_prime].n_leader < s.p[Z].n_leader
    THEN add_to_worklist(update_worklist_adds(s, Z, Z_prime, Z_prime), Z_prime)
    ELSE IF s.p[Z].on_worklist = 1 THEN update_worklist_adds(s, Z, Z_prime, Z)
    ELSE add_to_worklist(update_worklist_adds(s, Z, Z_prime, Z), Z)

update_worklist(s, Z, Z_prime) ==
    IF s.p[Z].on_worklist = 1 \/ s.p[Z_prime].n_leader < s.p[Z].n_leader
    THEN add_to_worklist(update_worklist_adds(s, Z, Z_prime, Z_prime), Z_prime)
    ELSE add_to_worklist(update_worklist_adds(s, Z, Z_prime, Z), Z)

\* first index i in lo..hi with P(i), or hi + 1
RECURSIVE FirstIdx(_, _, _)
FirstIdx(P(_), lo, hi) ==
    IF lo > hi THEN hi + 1
    ELSE IF P(lo) THEN lo ELSE FirstIdx(P, lo + 1, hi)

\* body of the loop over the inputs i of x in move_edges_to_leader
\* move_edge_to_leader without the insertion into the leader set: the edge
\* is overwritten and lost
move_edge_to_leader_lost(s, x, i) ==
    LET pred == get_irn_n(x, i)
        E    == s.o[pred]
        nf   == s.n[pred].n_followers
        j    == FirstIdx(LAMBDA jj_l : E[jj_l].pos = i /\ E[jj_l].use = x, 1, nf)
    IN IF j > nf THEN s
       ELSE [s EXCEPT !.o[pred] = [E EXCEPT ![j] = E[nf]],
                      !.n[pred].n_followers = nf - 1]

move_edge_to_leader(s, x, i) ==
    LET sorted(E1, edge, nf, k) ==
            SubSeq(E1, 1, nf - 1) \o SubSeq(E1, nf + 1, k - 1)
            \o <<edge>> \o SubSeq(E1, k, Len(E1))
        \* sort it into the leader set
        insert(pred, E1, edge, nf) ==
            [s EXCEPT
               !.o[pred] = sorted(E1, edge, nf,
                                  FirstIdx(LAMBDA kk_l : E1[kk_l].pos >= edge.pos,
                                           nf + 1, Len(E1))),
               !.n[pred].n_followers = nf - 1]
        \* p->o.out->edges[j] = p->o.out->edges[pred->n_followers]
        move(pred, E, nf, j) ==
            IF j > nf THEN s
            ELSE insert(pred, [E EXCEPT ![j] = E[nf]], E[j], nf)
        find(pred, E, nf) ==
            move(pred, E, nf,
                 FirstIdx(LAMBDA jj_l : E[jj_l].pos = i /\ E[jj_l].use = x,
                          1, nf))
        edges(pred) == find(pred, s.o[pred], s.n[pred].n_followers)
    IN edges(get_irn_n(x, i))

\* the sequence hi, hi-1, ..., lo
DownTo(hi, lo) == (<<>> \o [i \in 1..(hi - lo + 1) |-> hi + 1 - i])

move_edges_to_leader(s, x) ==
    Fold(LAMBDA st_l, i_l : move_edge_to_leader(st_l, x, i_l), s,
         DownTo(get_irn_arity(x) - 1, 0))

\* a follower_to_leader that does not count the new Leader
follower_to_leader_uncounted(s, n) ==
    LET X == s.n[n].part
        relink(s1) ==
            [s1 EXCEPT !.p = [list_del_node(s1.p, n) EXCEPT
                                ![X].Leader = Append(@, n)]]
    IN relink(move_edges_to_leader(
                 [Expect(s, s.n[n].is_follower = 1, "follower_to_leader")
                    EXCEPT !.n[n].is_follower = 0], n))

follower_to_leader(s, n) ==
    LET X == s.n[n].part
        relink(s1) ==
            [s1 EXCEPT !.p = [list_del_node(s1.p, n) EXCEPT
                                ![X].Leader = Append(@, n),
                                ![X].n_leader = @ + 1]]
    IN relink(move_edges_to_leader(
                 [Expect(s, s.n[n].is_follower = 1, "follower_to_leader")
                    EXCEPT !.n[n].is_follower = 0], n))

split_no_followers(s, Z, g) ==
    LET n == Len(g)
        \* Remove g from Z.
        remove(s0) ==
            [Expect([s0 EXCEPT !.p = Fold(list_del_node, s0.p, g)],
                    n < s0.p[Z].n_leader,
                    "split_no_followers: n < Z->n_leader")
               EXCEPT !.p[Z].n_leader = @ - n]
        \* Move g to a new partition, Z'.
        move(s2) ==
            LET Z_prime == Len(s2.p)
            IN [s2 EXCEPT
                  !.p[Z_prime].Leader = g,
                  !.p[Z_prime].max_user_inputs =
                      Fold(LAMBDA m_l, x_l :
                             Max2(m_l, s2.n[x_l].max_user_input), 0, g),
                  !.p[Z_prime].n_leader = n,
                  !.n = (<<>> \o [x \in DOMAIN @ |->
                           IF x \in Range(g)
                           THEN [@[x] EXCEPT !.part = Z_prime]
                           ELSE @[x]])]
        check(s3) ==
            LET Z_prime == Len(s3.p)
            IN check_partition(check_partition(s3, Z), Z_prime)
        finish(s4) ==
            LET Z_prime == Len(s4.p)
            IN [s |-> update_worklist(
                         [s4 EXCEPT !.p[Z_prime].type_is_T_or_C =
                                       s4.p[Z].type_is_T_or_C,
                                    !.t = Append(@, Snapshot(s4, "split_no_followers"))],
                         Z, Z_prime),
                X |-> Z, R |-> Z_prime]
    IN finish(check(move(new_partition(remove(
          Expect(s, g # <<>> /\ \A i \in 1..n : s.n[g[i]].part = Z,
                 "split_no_followers: g"))))))


(***************************************************************************)
(* Identity functions.  identity() returns the node x is a copy of under   *)
(* the types and partitions of s, or x itself; 0 stands for NULL.          *)
(***************************************************************************)
fp_strict_algebraic == TRUE

RECURSIVE identity_Phi_loop(_, _, _, _)
identity_Phi_loop(s, phi, i, n_part) ==
    IF i < 0 THEN n_part
    ELSE LET block  == get_nodes_block(phi)
             pred_X == get_Block_cfgpred(block, i)
             pred   == get_irn_n(phi, i)
         IN IF s.n[pred_X].type = tarval_reachable
            THEN IF n_part = 0
                 THEN identity_Phi_loop(s, phi, i - 1, pred)
                 ELSE IF s.n[n_part].part # s.n[pred].part
                 THEN phi
                 ELSE identity_Phi_loop(s, phi, i - 1, n_part)
            ELSE identity_Phi_loop(s, phi, i - 1, n_part)

identity_Phi(s, x) == identity_Phi_loop(s, x, get_irn_arity(x) - 1, 0)

identity_comm_zero_binop(s, x) ==
    LET a    == get_irn_n(x, 0)
        b    == get_irn_n(x, 1)
        mode == get_irn_mode(x)
        zero == get_mode_null(mode)
    IN IF mode_is_float(mode) /\ fp_strict_algebraic THEN x
       ELSE IF s.n[a].type = zero THEN b
       ELSE IF s.n[b].type = zero THEN a
       ELSE x

identity_shift(s, x) ==
    LET b    == get_irn_n(x, 1)
        zero == get_mode_null(get_irn_mode(b))
    IN IF s.n[b].type = zero THEN get_irn_n(x, 0) ELSE x

identity_Mul(s, x) ==
    LET a    == get_irn_n(x, 0)
        b    == get_irn_n(x, 1)
        mode == get_irn_mode(x)
        one  == get_mode_one(mode)
    IN IF mode_is_float(mode) /\ fp_strict_algebraic THEN x
       ELSE IF s.n[a].type = one THEN b
       ELSE IF s.n[b].type = one THEN a
       ELSE x

\* an identity_Sub that takes the constant one for the neutral element
identity_Sub_one(s, x) ==
    LET b    == get_irn_n(x, 1)
        mode == get_irn_mode(x)
    IN IF mode_is_float(mode) /\ fp_strict_algebraic THEN x
       ELSE IF s.n[b].type = get_mode_one(mode) THEN get_irn_n(x, 0)
       ELSE x

identity_Sub(s, x) ==
    LET b    == get_irn_n(x, 1)
        mode == get_irn_mode(x)
    IN IF mode_is_float(mode) /\ fp_strict_algebraic THEN x
       ELSE IF s.n[b].type = get_mode_null(mode) THEN get_irn_n(x, 0)
       ELSE x

identity_And(s, x) ==
    LET a       == get_irn_n(x, 0)
        b       == get_irn_n(x, 1)
        neutral == get_mode_all_one(get_irn_mode(x))
    IN IF s.n[a].type = neutral THEN b
       ELSE IF s.n[b].type = neutral THEN a
       ELSE x

identity_Confirm(s, x) == get_irn_n(x, 0)

identity_Mux(s, x) ==
    LET t == get_irn_n(x, 2)
        f == get_irn_n(x, 1)
    IN IF s.n[t].part = s.n[f].part THEN t ELSE x

identity(s, x) ==
    LET op == get_irn_opcode(x)
    IN CASE op = "Phi" -> identity_Phi(s, x)
         [] op = "Mul" -> identity_Mul(s, x)
         [] op \in {"Add", "Or", "Eor"} -> identity_comm_zero_binop(s, x)
         [] op \in {"Shr", "Shl", "Shrs", "Rotl"} -> identity_shift(s, x)
         [] op = "And" -> identity_And(s, x)
         [] op = "Sub" -> identity_Sub(s, x)
         [] op = "Confirm" -> identity_Confirm(s, x)
         [] op = "Mux" -> identity_Mux(s, x)
         [] OTHER -> x

(***************************************************************************)
(* The race.                                                               *)
(***************************************************************************)
is_real_follower(s, irn, input) ==
    LET op   == get_irn_opcode(irn)
        pred == get_irn_n(irn, input)
    IN CASE op = "Confirm" -> input # 1
         [] op = "Mux" -> input # 0
         [] op = "Phi" ->
              s.n[get_Block_cfgpred(get_nodes_block(irn), input)].type
                 # tarval_unreachable
         [] op \in {"Sub", "Shr", "Shl", "Shrs", "Rotl"} -> input # 1
         [] op \in {"Add", "Or", "Eor"} ->
              ~(is_tarval(s.n[pred].type) /\ tarval_is_null(s.n[pred].type))
         [] op = "Mul" ->
              ~(is_tarval(s.n[pred].type) /\ tarval_is_one(s.n[pred].type))
         [] op = "And" ->
              ~(is_tarval(s.n[pred].type) /\ tarval_is_all_one(s.n[pred].type))
         [] OTHER -> TRUE

new_step_env(list, side) ==
    [initial |-> list, unwalked |-> <<>>, walked |-> <<>>, index |-> 0,
     side |-> side]

HasBit(flags, bit) == (flags \div bit) % 2 = 1

\* the while loop of step(); the result is [env, s, res]
RECURSIVE step_walk(_, _)
step_walk(senv, s) ==
    IF senv.unwalked = <<>> THEN [env |-> senv, s |-> s, res |-> 1]
    ELSE
      LET \* m is flagged by this side now
          flag(senv1, s2, n, m) ==
              IF s2.n[m].flagged # 3
              THEN [env |-> [senv1 EXCEPT !.unwalked = <<n, m>> \o Tail(@)],
                    s |-> s2, res |-> 0]
              ELSE step_walk(senv1, s2)
          visit(senv1, s1, n, m, pos) ==
              IF /\ is_real_follower(s1, m, pos)
                 /\ s1.n[m].part = s1.n[n].part
                 /\ ~HasBit(s1.n[m].flagged, senv.side)
              THEN flag(senv1, [s1 EXCEPT !.n[m].flagged = @ + senv.side],
                        n, m)
              ELSE step_walk(senv1, s1)
          follow(n, edge) ==
              visit([senv EXCEPT !.index = @ + 1],
                    Expect(s, s.n[edge.use].is_follower = 1,
                           "step: m->is_follower"),
                    n, edge.use, edge.pos)
          next(n) ==
              IF senv.index < s.n[n].n_followers
              THEN follow(n, s.o[n][senv.index + 1])
              ELSE \* move n to walked
                   step_walk([senv EXCEPT !.unwalked = Tail(@),
                                          !.walked = <<n>> \o @,
                                          !.index = 0], s)
      IN next(Head(senv.unwalked))

\* a step that moves the whole initial list at once
step_whole_initial(senv, s) ==
    IF senv.initial # <<>>
    THEN [env |-> [senv EXCEPT !.initial = <<>>,
                               !.unwalked = Reverse(senv.initial) \o @],
          s |-> s, res |-> 0]
    ELSE step_walk(senv, s)

step(senv, s) ==
    IF senv.initial # <<>>
    THEN [env |-> [senv EXCEPT !.initial = Tail(@),
                               !.unwalked = <<Head(senv.initial)>> \o @],
          s |-> s, res |-> 0]
    ELSE step_walk(senv, s)

\* for (;;) { if (step(&senv[0])) ... if (step(&senv[1])) ... }
RECURSIVE race(_, _, _)
race_second(r0, r1) ==
    IF r1.res = 1
    THEN [winner |-> 1, senv |-> <<r0.env, r1.env>>, s |-> r1.s]
    ELSE race(r0.env, r1.env, r1.s)

race_first(r0, senv1) ==
    IF r0.res = 1
    THEN [winner |-> 0, senv |-> <<r0.env, senv1>>, s |-> r0.s]
    ELSE race_second(r0, step(senv1, r0.s))

race(senv0, senv1, s) == race_first(step(senv0, s), senv1)

\* a clear_flags that leaves the nodes both sides have reached Followers
clear_flags_only(s, list) ==
    [s |-> [s EXCEPT !.n = (<<>> \o [x \in DOMAIN @ |->
                              IF x \in Range(list)
                              THEN [@[x] EXCEPT !.flagged = 0] ELSE @[x]])],
     res |-> 0]

\* the result is [s, res]
clear_flags_node(r, n) ==
    [(IF r.s.n[n].flagged = 3
      THEN [s |-> follower_to_leader(r.s, n), res |-> 1]
      ELSE r) EXCEPT !.s.n[n].flagged = 0]

clear_flags(s, list) == Fold(clear_flags_node, [s |-> s, res |-> 0], list)


\* place partition X on env->cprop if it is not there
place_on_cprop(s, X) ==
    IF s.p[X].on_cprop = 0
    THEN [s EXCEPT !.e.cprop = <<X>> \o @, !.p[X].on_cprop = 1]
    ELSE s

\* a move that puts a Leader into the initial partition instead of X'
move_to_X_prime_initial(s, X_prime, x) ==
    IF s.n[x].is_follower = 1
    THEN [s EXCEPT !.p = [list_del_node(s.p, x) EXCEPT
                            ![X_prime].Follower = Append(@, x)],
                   !.n[x].part = X_prime]
    ELSE [s EXCEPT !.p = [list_del_node(s.p, x) EXCEPT
                            ![s.e.initial].Leader = Append(@, x),
                            ![s.e.initial].n_leader = @ + 1],
                   !.n[x].part = s.e.initial]

\* Move one node of walked_{winner} to X'.
move_to_X_prime(s, X_prime, x) ==
    IF s.n[x].is_follower = 1
    THEN [s EXCEPT !.p = [list_del_node(s.p, x) EXCEPT
                            ![X_prime].Follower = Append(@, x)],
                   !.n[x].part = X_prime]
    ELSE [s EXCEPT !.p = [list_del_node(s.p, x) EXCEPT
                            ![X_prime].Leader = Append(@, x),
                            ![X_prime].n_leader = @ + 1],
                   !.n[x].part = X_prime]

\* Split partition X by the local list gg using the race.  The result is
\* [s, X, R]: the state, the new value of *pX and the returned partition.
\* produce h, restore X.Leader
split_lists(s0, P0, X, gg) ==
    [s |-> [s0 EXCEPT !.p = [P0 EXCEPT ![X].Leader = gg \o @]],
     h |-> Reverse(P0[X].Leader)]

split_start(s0, X, gg) == split_lists(s0, Fold(list_del_node, s0.p, gg), X, gg)

split_race(b, g) == race(new_step_env(g, 1), new_step_env(b.h, 2), b.s)

\* tr are the bits of the transitions seen so far
split_cleared(c1, tr, bit) ==
    [s |-> c1.s, tr |-> IF c1.res = 1 THEN tr \cup {bit} ELSE tr]

\* clear flags from a list
split_clear(c, lb) == split_cleared(clear_flags(c.s, lb[1]), c.tr, lb[2])

\* the race is over: the lists of the two sides and the flags as the race
\* leaves them in r, the nodes as clear_flags leaves them in c
split_raced(r, c) ==
    [c EXCEPT !.s.l = Append(@, [at |-> "race", winner |-> r.winner,
                                 senv |-> r.senv,
                                 flagged |-> [y \in DOMAIN r.s.n |-> r.s.n[y].flagged],
                                 is_follower |-> [y \in DOMAIN r.s.n |-> r.s.n[y].is_follower],
                                 flagged_cleared |-> [y \in DOMAIN c.s.n |-> c.s.n[y].flagged],
                                 is_follower_cleared |->
                                    [y \in DOMAIN c.s.n |-> c.s.n[y].is_follower]])]

\* clear flags from walked/unwalked
split_flags(r) ==
    LET shf0 == IF r.winner = 0 THEN 1 ELSE 2
        shf1 == IF r.winner = 0 THEN 2 ELSE 1
    IN [winner |-> r.winner,
        walked |-> r.senv[r.winner + 1].walked,
        c |-> split_raced(r,
                 Fold(split_clear, [s |-> r.s, tr |-> {}],
                      << <<r.senv[1].unwalked, shf0>>,
                         <<r.senv[1].walked, shf0>>,
                         <<r.senv[2].unwalked, shf1>>,
                         <<r.senv[2].walked, shf1>> >>))]

split_moved(s3, X, X_prime, walked) ==
    [s3 EXCEPT
       !.p[X_prime].max_user_inputs =
           Fold(LAMBDA m_l, x_l : Max2(m_l, s3.n[x_l].max_user_input),
                0, walked),
       !.p[X].n_leader = @ - s3.p[X_prime].n_leader,
       !.p[X_prime].type_is_T_or_C = s3.p[X].type_is_T_or_C]

\* Move walked_{winner} to a new partition, X'.
split_move(s2, X, walked) ==
    split_moved(Fold(LAMBDA st_l, x_l : move_to_X_prime(st_l, Len(s2.p), x_l),
                     s2, walked),
                X, Len(s2.p), walked)

\* a split that leaves the followers of X' as they are
split_lost_kept(c, x) == c

\* a follower of X' that lost its congruence becomes a leader
split_lost(c, x) ==
    IF identity(c.s, x) = x
    THEN [s |-> follower_to_leader(c.s, x), tr |-> c.tr \cup {1}]
    ELSE c

split_newpart(f, s4) ==
    [winner |-> f.winner,
     c |-> Fold(split_lost, [s |-> s4, tr |-> f.c.tr],
                s4.p[Len(s4.p)].Follower)]

split_create(f, X) ==
    split_newpart(f, split_move(new_partition(f.c.s), X, f.walked))

split_checked(s5, X_prime) == add_to_worklist(take_snapshot(s5, "split"), X_prime)

split_check(n, X) ==
    [winner |-> n.winner, tr |-> n.c.tr,
     s |-> split_checked(check_partition(check_partition(n.c.s, X),
                                         Len(n.c.s.p)),
                         Len(n.c.s.p))]

\* a split that always returns X'
split_finish_X_prime(k, X) ==
    LET X_prime == Len(k.s.p)
        s7 == IF 1 \in k.tr THEN place_on_cprop(k.s, X_prime) ELSE k.s
        s8 == IF 2 \in k.tr THEN place_on_cprop(s7, X) ELSE s7
    IN [s |-> s8, X |-> X, R |-> X_prime]

\* a split that places the partition of the winner only
split_finish_winner(k, X) ==
    LET X_prime == Len(k.s.p)
        s7 == IF 1 \in k.tr THEN place_on_cprop(k.s, X_prime) ELSE k.s
    IN IF k.winner # 0
       THEN [s |-> s7, X |-> X_prime, R |-> X]
       ELSE [s |-> s7, X |-> X, R |-> X_prime]

\* place the partitions with follower -> leader transitions on cprop
split_finish(k, X) ==
    LET X_prime == Len(k.s.p)
        s7 == IF 1 \in k.tr THEN place_on_cprop(k.s, X_prime) ELSE k.s
        s8 == IF 2 \in k.tr THEN place_on_cprop(s7, X) ELSE s7
    IN IF k.winner # 0
       THEN [s |-> s8, X |-> X_prime, R |-> X]
       ELSE [s |-> s8, X |-> X, R |-> X_prime]

\* split(&X, gg) has returned r on s: X and the nodes before and after it
split_returns(s, X, gg, r) ==
    [r EXCEPT !.s.l = Append(@, [at |-> "split", X |-> X, gg |-> gg,
                                 pX |-> r.X, R |-> r.R,
                                 race |-> IF s.p[X].Follower = <<>> THEN 0 ELSE 1,
                                 Leader |-> s.p[X].Leader,
                                 Follower |-> s.p[X].Follower,
                                 n_leader |-> s.p[X].n_leader,
                                 n_partitions |-> Len(s.p),
                                 part |-> [y \in DOMAIN s.n |-> s.n[y].part],
                                 is_follower |-> [y \in DOMAIN s.n |-> s.n[y].is_follower],
                                 partitions |-> [Y \in DOMAIN r.s.p |->
                                                   [Leader |-> r.s.p[Y].Leader,
                                                    Follower |-> r.s.p[Y].Follower,
                                                    n_leader |-> r.s.p[Y].n_leader]],
                                 worklist |-> s.e.worklist,
                                 on_worklist |-> [Y \in DOMAIN s.p |->
                                                    s.p[Y].on_worklist],
                                 cprop |-> s.e.cprop,
                                 worklist_after |-> r.s.e.worklist,
                                 cprop_after |-> r.s.e.cprop,
                                 on_cprop_after |-> [Y \in DOMAIN r.s.p |->
                                                       r.s.p[Y].on_cprop],
                                 part_after |-> [y \in DOMAIN r.s.n |-> r.s.n[y].part],
                                 is_follower_after |->
                                    [y \in DOMAIN r.s.n |-> r.s.n[y].is_follower]])]

\* The result is [s, X, R]: X is the new value of *pX, R the partition the
\* code returns.
split(s, X, gg) ==
    split_returns(s, X, gg,
       IF s.p[X].Follower = <<>>
       THEN split_no_followers(s, X, gg)
       ELSE \* Remove gg from X.Leader and put into g
            split_finish(split_check(split_create(split_flags(split_race(
               split_start(
                  Expect(s, \A i \in 1..Len(gg) :
                               s.n[gg[i]].part = X /\ s.n[gg[i]].is_follower = 0,
                         "split: gg"), X, gg),
               Reverse(gg))), X), X), X))

(***************************************************************************)
(* Classification of types.                                                *)
(***************************************************************************)
is_constant_type(type) == type # tarval_bottom /\ type # tarval_top

type_is_neither_top_nor_const(type) ==
    IF is_tarval(type)
    THEN ~(type = tarval_top \/ tarval_is_constant(type))
    ELSE FALSE

is_con(type) == IF is_tarval(type) THEN tarval_is_constant(type) ELSE TRUE

is_live_input(s, phi, i) ==
    IF i >= 0
    THEN s.n[get_Block_cfgpred(get_nodes_block(phi), i)].type
           # tarval_unreachable
    ELSE TRUE


(***************************************************************************)
(* Transfer functions.  Each compute_X(s, x) is the type that the code     *)
(* stores into x->type.                                                    *)
(***************************************************************************)
\* The tarval returned by Unknown nodes
tarval_UNKNOWN(s) == IF s.e.opt_unknown = 1 THEN tarval_top ELSE tarval_bad

get_node_tarval(s, irn) ==
    IF is_tarval(s.n[irn].type) THEN s.n[irn].type ELSE tarval_bottom

\* the constant folder of the IR, reading the operands through value_of()
computed_value(s, irn) ==
    LET op == get_irn_opcode(irn)
        a  == get_node_tarval(s, get_irn_n(irn, 0))
        b  == get_node_tarval(s, get_irn_n(irn, 1))
    IN CASE op = "Const" -> new_tarval(get_irn_mode(irn), irg[irn].attr)
         [] op = "Mul" ->
              IF tarval_is_constant(a) /\ tarval_is_constant(b)
              THEN tarval_mul(a, b)
              ELSE IF tarval_is_null(a) THEN a
              ELSE IF tarval_is_null(b) THEN b
              ELSE tarval_bad
         [] op = "And" ->
              IF tarval_is_constant(a) /\ tarval_is_constant(b)
              THEN tarval_and(a, b)
              ELSE IF tarval_is_null(a) THEN a
              ELSE IF tarval_is_null(b) THEN b
              ELSE tarval_bad
         [] op = "Cmp" ->
              IF tarval_is_constant(a) /\ tarval_is_constant(b)
              THEN IF RelIncludes(irg[irn].attr, tarval_cmp(a, b))
                   THEN tarval_b_true ELSE tarval_b_false
              ELSE tarval_bad
         [] OTHER -> tarval_bad

default_compute(s, x) ==
    IF \E i \in 0..(get_irn_arity(x) - 1) :
         s.n[get_irn_n(x, i)].type = tarval_top
    THEN tarval_top
    ELSE IF get_irn_mode(x) = "X" THEN tarval_reachable
    ELSE computed_value(s, x)

is_start_block(b) ==
    \E n \in Nodes : irg[n].op = "Start" /\ irg[n].blk = b

\* a compute_Block that asks for every predecessor to be Reachable
compute_Block_all(s, block) ==
    IF is_start_block(block) \/ irg[block].attr # 0
    THEN tarval_reachable
    ELSE IF \A i \in 0..(get_Block_n_cfgpreds(block) - 1) :
              s.n[get_Block_cfgpred(block, i)].type = tarval_reachable
    THEN tarval_reachable
    ELSE tarval_top

compute_Block(s, block) ==
    IF is_start_block(block) \/ irg[block].attr # 0
    THEN \* start block and labelled blocks are always reachable
         tarval_reachable
    ELSE IF \E i \in 0..(get_Block_n_cfgpreds(block) - 1) :
              s.n[get_Block_cfgpred(block, i)].type = tarval_reachable
    THEN tarval_reachable
    ELSE tarval_top

compute_Bad(s, x) == tarval_top

\* an Unknown that computes Bottom whatever env.opt_unknown is
compute_Unknown_bad(s, x) == tarval_bad

compute_Unknown(s, x) == tarval_UNKNOWN(s)

compute_Jmp(s, x) == s.n[get_nodes_block(x)].type

compute_Return(s, x) == tarval_reachable

compute_End(s, x) == tarval_reachable

compute_Call(s, x) == tarval_bottom

compute_SymConst(s, x) ==
    IF s.n[get_nodes_block(x)].type = tarval_unreachable
    THEN tarval_top
    ELSE sym_entity(irg[x].attr)

\* the loop of compute_Phi without the test of the control-flow predecessor
RECURSIVE compute_Phi_loop_all(_, _, _, _)
compute_Phi_loop_all(s, phi, i, type) ==
    IF i < 0 THEN type
    ELSE LET pred == s.n[get_irn_n(phi, i)]
         IN IF pred.type = tarval_top
            THEN compute_Phi_loop_all(s, phi, i - 1, type)
            ELSE IF pred.type = tarval_bottom THEN tarval_bottom
            ELSE IF type = tarval_top
            THEN compute_Phi_loop_all(s, phi, i - 1, pred.type)
            ELSE IF type # pred.type THEN tarval_bottom
            ELSE compute_Phi_loop_all(s, phi, i - 1, type)

\* the loop of compute_Phi with the Top inputs taken into the meet
RECURSIVE compute_Phi_loop_top(_, _, _, _)
compute_Phi_loop_top(s, phi, i, type) ==
    IF i < 0 THEN type
    ELSE LET pred   == s.n[get_irn_n(phi, i)]
             pred_X == s.n[get_Block_cfgpred(get_nodes_block(phi), i)]
         IN IF pred_X.type = tarval_unreachable
            THEN compute_Phi_loop_top(s, phi, i - 1, type)
            ELSE IF pred.type = tarval_bottom THEN tarval_bottom
            ELSE IF type = tarval_top
            THEN compute_Phi_loop_top(s, phi, i - 1, pred.type)
            ELSE IF type # pred.type THEN tarval_bottom
            ELSE compute_Phi_loop_top(s, phi, i - 1, type)

\* the loop of compute_Phi over the inputs i, i-1, ..., 0
RECURSIVE compute_Phi_loop(_, _, _, _)
compute_Phi_loop(s, phi, i, type) ==
    IF i < 0 THEN type
    ELSE LET pred   == s.n[get_irn_n(phi, i)]
             pred_X == s.n[get_Block_cfgpred(get_nodes_block(phi), i)]
         IN IF pred_X.type = tarval_unreachable \/ pred.type = tarval_top
            THEN compute_Phi_loop(s, phi, i - 1, type)
            ELSE IF pred.type = tarval_bottom THEN tarval_bottom
            ELSE IF type = tarval_top
            THEN compute_Phi_loop(s, phi, i - 1, pred.type)
            ELSE IF type # pred.type THEN tarval_bottom
            ELSE compute_Phi_loop(s, phi, i - 1, type)

\* compute_Phi without the Meet: the type of the live input of the lowest
\* index that is not Top
compute_Phi_no_meet(s, phi) ==
    LET found == {i \in 0..(get_irn_arity(phi) - 1) :
                    /\ is_live_input(s, phi, i)
                    /\ s.n[get_irn_n(phi, i)].type # tarval_top}
    IN IF s.n[get_nodes_block(phi)].type = tarval_unreachable \/ found = {}
       THEN tarval_top
       ELSE s.n[get_irn_n(phi, CHOOSE i \in found :
                                 \A j \in found : i <= j)].type

compute_Phi(s, phi) ==
    IF s.n[get_nodes_block(phi)].type = tarval_unreachable
    THEN tarval_top
    ELSE compute_Phi_loop(s, phi, get_irn_arity(phi) - 1, tarval_top)

compute_Add(s, x) ==
    LET a == s.n[get_irn_n(x, 0)].type
        b == s.n[get_irn_n(x, 1)].type
    IN IF a = tarval_top \/ b = tarval_top THEN tarval_top
       ELSE IF a = tarval_bottom \/ b = tarval_bottom THEN tarval_bottom
       ELSE IF is_tarval(a)
       THEN IF is_tarval(b) THEN tarval_add(a, b)
            ELSE IF a = get_mode_null(a.m) THEN b
            ELSE tarval_bottom
       ELSE IF is_tarval(b) /\ b = get_mode_null(b.m) THEN a
       ELSE tarval_bottom

compute_Sub(s, x) ==
    LET l == get_irn_n(x, 0)
        r == get_irn_n(x, 1)
        a == s.n[l].type
        b == s.n[r].type
    IN IF a = tarval_top \/ b = tarval_top THEN tarval_top
       ELSE IF is_con(a) /\ is_con(b)
       THEN IF is_tarval(a) /\ is_tarval(b)
            THEN tarval_sub(a, b, get_irn_mode(x))
            ELSE IF is_tarval(a) /\ tarval_is_null(a) THEN b
            ELSE IF is_tarval(b) /\ tarval_is_null(b) THEN a
            ELSE tarval_bottom
       ELSE IF s.n[r].part = s.n[l].part /\ ~mode_is_float(get_irn_mode(l))
       THEN LET tv == get_mode_null(get_irn_mode(x))
            IN IF s.n[x].type # tv THEN tarval_bottom ELSE tv
       ELSE tarval_bottom

compute_Eor(s, x) ==
    LET l == get_irn_n(x, 0)
        r == get_irn_n(x, 1)
        a == s.n[l].type
        b == s.n[r].type
    IN IF a = tarval_top \/ b = tarval_top THEN tarval_top
       ELSE IF is_con(a) /\ is_con(b)
       THEN IF is_tarval(a) /\ is_tarval(b)
            THEN tarval_eor(a, b)
            ELSE IF is_tarval(a) /\ tarval_is_null(a) THEN b
            ELSE IF is_tarval(b) /\ tarval_is_null(b) THEN a
            ELSE tarval_bottom
       ELSE IF s.n[r].part = s.n[l].part
       THEN LET tv == get_mode_null(get_irn_mode(x))
            IN IF s.n[x].type # tv THEN tarval_bottom ELSE tv
       ELSE tarval_bottom

\* compute_Cmp without the test for the floating point mode
compute_Cmp_float(s, x) ==
    LET l == get_irn_n(x, 0)
        r == get_irn_n(x, 1)
        a == s.n[l].type
        b == s.n[r].type
        tv == IF RelIncludes(irg[x].attr, ir_relation_equal)
              THEN tarval_b_true ELSE tarval_b_false
    IN IF a = tarval_top \/ b = tarval_top THEN tarval_undefined
       ELSE IF is_con(a) /\ is_con(b) THEN default_compute(s, x)
       ELSE IF s.n[r].part = s.n[l].part
       THEN IF s.n[x].type = tarval_bottom THEN tarval_bottom
            ELSE IF s.n[x].type # tv /\ is_constant_type(s.n[x].type)
            THEN tarval_bottom
            ELSE tv
       ELSE tarval_bottom

compute_Cmp(s, x) ==
    LET l == get_irn_n(x, 0)
        r == get_irn_n(x, 1)
        a == s.n[l].type
        b == s.n[r].type
        relation == irg[x].attr
    IN IF a = tarval_top \/ b = tarval_top THEN tarval_undefined
       ELSE IF is_con(a) /\ is_con(b) THEN default_compute(s, x)
       ELSE IF s.n[r].part = s.n[l].part /\ ~mode_is_float(get_irn_mode(l))
       THEN LET tv == IF RelIncludes(relation, ir_relation_equal)
                      THEN tarval_b_true ELSE tarval_b_false
            IN IF s.n[x].type = tarval_bottom THEN tarval_bottom
               ELSE IF s.n[x].type # tv /\ is_constant_type(s.n[x].type)
               THEN tarval_bottom
               ELSE tv
       ELSE tarval_bottom

\* compute_Proj_Cond without the test that keeps a Reachable Proj
compute_Proj_Cond_no_latch(s, x, cond) ==
    LET pnc      == get_Proj_proj(x)
        selector == s.n[get_irn_n(cond, 0)].type
    IN IF selector = tarval_bottom THEN tarval_reachable
       ELSE IF selector = tarval_top
       THEN IF pnc = pn_Cond_false THEN tarval_reachable
            ELSE tarval_unreachable
       ELSE IF (selector = tarval_b_true) = (pnc = pn_Cond_true)
       THEN tarval_reachable
       ELSE tarval_unreachable

compute_Proj_Cond(s, x, cond) ==
    LET pnc      == get_Proj_proj(x)
        selector == s.n[get_irn_n(cond, 0)].type
    IN IF s.n[x].type = tarval_reachable THEN tarval_reachable
       ELSE IF pnc = pn_Cond_true
       THEN IF selector = tarval_b_false THEN tarval_unreachable
            ELSE IF selector = tarval_b_true THEN tarval_reachable
            ELSE IF selector = tarval_bottom THEN tarval_reachable
            ELSE tarval_unreachable
       ELSE IF selector = tarval_b_false THEN tarval_reachable
            ELSE IF selector = tarval_b_true THEN tarval_unreachable
            ELSE IF selector = tarval_bottom THEN tarval_reachable
            ELSE IF tarval_UNKNOWN(s) = tarval_top THEN tarval_reachable
            ELSE tarval_unreachable

\* a match that looks at the lower end of the entry only
compute_Proj_Switch_match_min(entry, tv) == tv = entry.min

\* the entry of the table matches the constant selector type
compute_Proj_Switch_match(entry, tv) ==
    IF entry.min = entry.max
    THEN tv = entry.min
    ELSE entry.min.v <= tv.v /\ tv.v <= entry.max.v

\* compute_Proj_Switch with a Top selector that reaches no Proj at all
compute_Proj_Switch_no_default(s, x, switchn) ==
    LET pnc      == get_Proj_proj(x)
        selector == s.n[get_irn_n(switchn, 0)].type
        hits     == SelectSeq(get_Switch_table(switchn), LAMBDA e_l :
                                  compute_Proj_Switch_match(e_l, selector))
    IN IF s.n[x].type = tarval_reachable THEN tarval_reachable
       ELSE IF selector = tarval_bottom THEN tarval_reachable
       ELSE IF selector = tarval_top THEN tarval_unreachable
       ELSE IF hits # <<>>
       THEN IF hits[1].pn = pnc THEN tarval_reachable
            ELSE tarval_unreachable
       ELSE IF pnc = pn_Switch_default THEN tarval_reachable
            ELSE tarval_unreachable

compute_Proj_Switch(s, x, switchn) ==
    LET pnc      == get_Proj_proj(x)
        selector == s.n[get_irn_n(switchn, 0)].type
        table    == get_Switch_table(switchn)
        hits     == SelectSeq(table, LAMBDA e_l :
                                  compute_Proj_Switch_match(e_l, selector))
    IN IF s.n[x].type = tarval_reachable THEN tarval_reachable
       ELSE IF selector = tarval_bottom THEN tarval_reachable
       ELSE IF selector = tarval_top
       THEN IF tarval_UNKNOWN(s) = tarval_top /\ pnc = pn_Switch_default
            THEN tarval_reachable
            ELSE tarval_unreachable
       ELSE IF hits # <<>>
       THEN IF hits[1].pn = pnc THEN tarval_reachable
            ELSE tarval_unreachable
       ELSE IF pnc = pn_Switch_default THEN tarval_reachable
            ELSE tarval_unreachable

compute_Proj(s, x) ==
    LET mode  == get_irn_mode(x)
        block == get_nodes_block(skip_Proj(x))
        pred  == get_Proj_pred(x)
    IN IF s.n[block].type = tarval_unreachable THEN tarval_top
       ELSE IF s.n[pred].type = tarval_top /\ ~is_Cond(pred) /\ ~is_Switch(pred)
       THEN tarval_top
       ELSE IF mode = "M" THEN tarval_bottom
       ELSE IF mode = "X" /\ get_irn_opcode(pred) = "Start"
       THEN tarval_reachable
       ELSE IF mode = "X" /\ is_Cond(pred)
       THEN compute_Proj_Cond(s, x, pred)
       ELSE IF mode = "X" /\ is_Switch(pred)
       THEN compute_Proj_Switch(s, x, pred)
       ELSE default_compute(s, x)

compute_Confirm(s, x) ==
    LET pred  == get_irn_n(x, 0)
        bound == get_irn_n(x, 1)
    IN IF irg[x].attr = ir_relation_equal /\ is_con(s.n[bound].type)
       THEN s.n[bound].type
       ELSE s.n[pred].type

\* op->ops.generic as set by set_compute_functions()
compute_func(s, x) ==
    LET op == get_irn_opcode(x)
    IN CASE op = "Block"    -> compute_Block(s, x)
         [] op = "Unknown"  -> compute_Unknown(s, x)
         [] op = "Bad"      -> compute_Bad(s, x)
         [] op = "Jmp"      -> compute_Jmp(s, x)
         [] op = "Phi"      -> compute_Phi(s, x)
         [] op = "Add"      -> compute_Add(s, x)
         [] op = "Sub"      -> compute_Sub(s, x)
         [] op = "Eor"      -> compute_Eor(s, x)
         [] op = "SymConst" -> compute_SymConst(s, x)
         [] op = "Cmp"      -> compute_Cmp(s, x)
         [] op = "Proj"     -> compute_Proj(s, x)
         [] op = "Confirm"  -> compute_Confirm(s, x)
         [] op = "Return"   -> compute_Return(s, x)
         [] op = "End"      -> compute_End(s, x)
         [] op = "Call"     -> compute_Call(s, x)
         [] OTHER           -> default_compute(s, x)

compute(s, x) ==
    IF ~is_Block(x) /\ is_pinned(skip_Proj(x))
       /\ s.n[get_nodes_block(x)].type = tarval_unreachable
    THEN tarval_top
    ELSE compute_func(s, x)


(***************************************************************************)
(* cause_splits                                                            *)
(***************************************************************************)
\* the while loop of collect_touched for one node x
RECURSIVE collect_touched_edges(_, _, _)
collect_touched_edges(s, x, idx) ==
    IF s.n[x].next_edge >= get_irn_n_outs(s, x) THEN s
    ELSE
      LET edge == s.o[x][s.n[x].next_edge + 1]
      IN IF edge.pos > idx THEN s
         ELSE
           LET s1   == [s EXCEPT !.n[x].next_edge = @ + 1]
               succ == edge.use
               y    == s.n[succ]
               touch(s3) ==
                   IF type_is_neither_top_nor_const(y.type)
                      /\ (~is_Phi(succ) \/ is_live_input(s3, succ, idx))
                   THEN add_to_touched(s3, succ) ELSE s3
           IN IF s.e.commutative = 1 /\ idx \in {0, 1}
                 /\ is_op_commutative(get_irn_opcode(succ))
              THEN collect_touched_edges(s1, x, idx)
              ELSE IF idx < s.e.end_idx /\ ~is_pinned(succ)
              THEN collect_touched_edges(s1, x, idx)
              ELSE
                LET s2 == Expect(s1, edge.pos = idx
                                     \/ (idx < get_irn_arity(succ)
                                         /\ get_irn_n(succ, idx) = x),
                                 "collect_touched: get_irn_n(succ, idx) == x->node")
                IN IF idx = -1 /\ y.is_follower = 1
                   THEN collect_touched_edges(s2, x, idx)
                   ELSE collect_touched_edges(
                           touch(IF is_constant_type(y.type)
                                    /\ get_irn_opcode(succ) \in {"Sub", "Cmp"}
                                 THEN add_to_cprop(s2, succ) ELSE s2),
                           x, idx)

collect_touched(s, list, idx) ==
    Fold(LAMBDA st_l, x_l :
           collect_touched_edges(
              IF idx = -1
              THEN [st_l EXCEPT !.n[x_l].next_edge = st_l.n[x_l].n_followers]
              ELSE st_l, x_l, idx),
         s, list)

RECURSIVE collect_commutative_touched_edges(_, _)
collect_commutative_touched_edges(s, x) ==
    IF s.n[x].next_edge >= get_irn_n_outs(s, x) THEN s
    ELSE
      LET edge == s.o[x][s.n[x].next_edge + 1]
      IN IF edge.pos > 1 THEN s
         ELSE
           LET s1   == [s EXCEPT !.n[x].next_edge = @ + 1]
               succ == edge.use
               y    == s.n[succ]
               touch(s2) ==
                   IF type_is_neither_top_nor_const(y.type)
                   THEN add_to_touched(s2, succ) ELSE s2
           IN IF edge.pos < 0
              THEN collect_commutative_touched_edges(s1, x)
              ELSE IF ~is_op_commutative(get_irn_opcode(succ))
              THEN collect_commutative_touched_edges(s1, x)
              ELSE collect_commutative_touched_edges(
                      touch(IF is_constant_type(y.type)
                               /\ get_irn_opcode(succ) = "Eor"
                            THEN add_to_cprop(s1, succ) ELSE s1),
                      x)

collect_commutative_touched(s, list) ==
    Fold(LAMBDA st_l, x_l :
           collect_commutative_touched_edges(
              [st_l EXCEPT !.n[x_l].next_edge = st_l.n[x_l].n_followers], x_l),
         s, list)

\* a loop that empties the list of Z and leaves on_touched of its nodes set
empty_touched_list(s, Z) ==
    [s EXCEPT !.p[Z].on_touched = 0,
              !.p[Z].touched = <<>>,
              !.p[Z].n_touched = 0]

\* Empty local Z.touched: clear on_touched of its nodes
empty_touched(s, Z) ==
    LET touched == s.p[Z].touched
        s1 == Expect(s, touched # <<>>
                        /\ \A i \in 1..Len(touched) :
                             s.n[touched[i]].is_follower = 0,
                     "cause_splits: touched")
    IN [s1 EXCEPT !.p[Z].on_touched = 0,
                  !.p[Z].touched = <<>>,
                  !.p[Z].n_touched = 0,
                  !.n = (<<>> \o [x \in DOMAIN @ |->
                           IF x \in Range(touched)
                           THEN [@[x] EXCEPT !.on_touched = 0] ELSE @[x]])]

\* a split that needs two touched nodes
split_touched_two(s, Z, list, n_touched, what) ==
    IF 1 < n_touched /\ n_touched < s.p[Z].n_leader
    THEN split(s, Z, list).s
    ELSE Expect(s, n_touched <= s.p[Z].n_leader, what)

\* a split that takes the whole Leader list of Z if every Leader is touched
split_touched_all(s, Z, list, n_touched, what) ==
    IF 0 < n_touched
    THEN split(s, Z, list).s
    ELSE Expect(s, n_touched <= s.p[Z].n_leader, what)

\* split Z by the list if the list is a proper part of the leaders of Z
split_touched(s, Z, list, n_touched, what) ==
    IF 0 < n_touched /\ n_touched < s.p[Z].n_leader
    THEN split(s, Z, list).s
    ELSE Expect(s, n_touched <= s.p[Z].n_leader, what)

\* the touched partition Z as the loop finds it in s, and as it leaves it in r
cause_splits_touches(s, r, Z, at) ==
    [r EXCEPT !.l = Append(@, [at |-> at, Z |-> Z,
                               touched |-> s.p[Z].touched,
                               n_touched |-> s.p[Z].n_touched,
                               n_leader |-> s.p[Z].n_leader,
                               Leader |-> s.p[Z].Leader,
                               part |-> [y \in DOMAIN s.n |-> s.n[y].part],
                               is_follower |-> [y \in DOMAIN s.n |-> s.n[y].is_follower],
                               n_partitions |-> Len(s.p),
                               partitions |-> [Y \in DOMAIN r.p |->
                                                 [Leader |-> r.p[Y].Leader,
                                                  touched |-> r.p[Y].touched,
                                                  n_touched |-> r.p[Y].n_touched,
                                                  on_touched |-> r.p[Y].on_touched]],
                               part_after |-> [y \in DOMAIN r.n |-> r.n[y].part],
                               on_touched |-> [y \in DOMAIN r.n |-> r.n[y].on_touched]])]

\* body of the loop over the touched partitions Z, commutative nodes
cause_splits_commutative_Z(s, Z) ==
    LET touched == s.p[Z].touched
        same(e) == s.n[get_irn_n(e, 0)].part = s.n[get_irn_n(e, 1)].part
        touched_aa == Reverse(SelectSeq(touched, same))
        touched_ab == Reverse(SelectSeq(touched, LAMBDA e_l : ~same(e_l)))
    IN cause_splits_touches(s,
          split_touched(
             split_touched(empty_touched(s, Z), Z, touched_aa, Len(touched_aa),
                           "cause_splits: n_touched_aa"),
             Z, touched_ab, Len(touched_ab), "cause_splits: n_touched_ab"),
          Z, "cause_splits_commutative")

\* body of the loop over the touched partitions Z
cause_splits_Z(s, Z) ==
    cause_splits_touches(s,
       split_touched(empty_touched(s, Z), Z, s.p[Z].touched, s.p[Z].n_touched,
                     "cause_splits: n_touched"),
       Z, "cause_splits_idx")

\* body of the loop over the input positions idx
collect_touched_Leader(s, X, idx) == collect_touched(s, s.p[X].Leader, idx)

collect_touched_Follower(s, X, idx) == collect_touched(s, s.p[X].Follower, idx)

cause_splits_touched(s) == Fold(cause_splits_Z, s, s.e.touched)

\* body of the loop over the input positions idx
cause_splits_idx(s, X, idx) ==
    cause_splits_touched(
       collect_touched_Follower(
          collect_touched_Leader([s EXCEPT !.e.touched = <<>>], X, idx),
          X, idx))

\* the sequence lo, lo+1, ..., hi
UpTo(lo, hi) == (<<>> \o [i \in 1..(hi - lo + 1) |-> lo + i - 1])

RECURSIVE cause_splits_loop(_, _, _)
\* X->max_user_inputs is read again on every iteration
cause_splits_loop(s, X, idx) ==
    IF idx > s.p[X].max_user_inputs THEN s
    ELSE cause_splits_loop(cause_splits_idx(s, X, idx), X, idx + 1)

collect_commutative_touched_Leader(s, X) ==
    collect_commutative_touched(s, s.p[X].Leader)

collect_commutative_touched_Follower(s, X) ==
    collect_commutative_touched(s, s.p[X].Follower)

cause_splits_commutative_touched(s) ==
    Fold(cause_splits_commutative_Z, s, s.e.touched)

\* handle commutative nodes first
cause_splits_commutative(s, X) ==
    IF s.e.commutative = 1
    THEN cause_splits_commutative_touched(
            collect_commutative_touched_Follower(
               collect_commutative_touched_Leader(
                  [s EXCEPT !.e.touched = <<>>], X),
               X))
    ELSE s

\* cause_splits that leaves X on the worklist
cause_splits_keep(s) ==
    LET X == Head(s.e.worklist)
    IN take_snapshot(cause_splits_loop(cause_splits_commutative(s, X), X, -1),
                     "cause_splits")

\* cause_splits that takes X off the worklist and leaves its flag set
cause_splits_flagged(s) ==
    LET X == Head(s.e.worklist)
    IN take_snapshot(cause_splits_loop(
          cause_splits_commutative([s EXCEPT !.e.worklist = Tail(@)], X),
          X, -1), "cause_splits")

cause_splits(s) ==
    LET X == Head(s.e.worklist)
    IN take_snapshot(cause_splits_loop(
          cause_splits_commutative([s EXCEPT !.e.worklist = Tail(@),
                                             !.p[X].on_worklist = 0], X),
          X, -1), "cause_splits")


(***************************************************************************)
(* split_by                                                                *)
(***************************************************************************)
\* The What functions return <<id>>, or <<>> for NULL.

\* a key that is the same for all types
lambda_type_any(s, x) == <<tarval_top>>

\* lambda n.(n.type)
lambda_type(s, x) == <<s.n[x].type>>

\* the key under which cmp_irn_opcode() compares two nodes equal; Blocks
\* are never equal
opcode_key(x) ==
    <<get_irn_opcode(x), get_irn_mode(x), get_irn_arity(x),
      IF is_Block(x) THEN x ELSE irg[x].attr>>

\* a lambda n.(n.opcode) that does not look at the attributes
lambda_opcode_only(s, x) ==
    <<<<get_irn_opcode(x), get_irn_mode(x), get_irn_arity(x),
        IF is_Block(x) THEN x ELSE 0>>>>

\* lambda n.(n.opcode)
lambda_opcode(s, x) == <<opcode_key(x)>>

\* lambda n.(n[i].partition)
lambda_partition(s, x) ==
    LET skipped == skip_Proj(x)
        i       == s.e.lambda_input
    IN IF i >= get_irn_arity(x) THEN <<>>
       ELSE IF i < s.e.end_idx /\ ~is_pinned(skipped) THEN <<>>
       ELSE LET pred == IF i = -1 THEN get_irn_n(skipped, i)
                        ELSE get_irn_n(x, i)
            IN <<s.n[pred].part>>

\* lambda n.(n[i].partition) that takes the operands as they come
lambda_commutative_partition_unordered(s, x) ==
    LET skipped == skip_Proj(x)
        i       == s.e.lambda_input
    IN IF i >= get_irn_arity(x) THEN <<>>
       ELSE IF i < s.e.end_idx /\ ~is_pinned(skipped) THEN <<>>
       ELSE IF i = -1 THEN <<s.n[get_irn_n(skipped, i)].part>>
       ELSE <<s.n[get_irn_n(x, i)].part>>

\* lambda n.(n[i].partition) for commutative nodes
lambda_commutative_partition(s, x) ==
    LET skipped == skip_Proj(x)
        i       == s.e.lambda_input
    IN IF i >= get_irn_arity(x) THEN <<>>
       ELSE IF i < s.e.end_idx /\ ~is_pinned(skipped) THEN <<>>
       ELSE IF i = -1 THEN <<s.n[get_irn_n(skipped, i)].part>>
       ELSE IF is_op_commutative(get_irn_opcode(x))
       THEN LET pl == s.n[get_irn_n(x, 0)].part
                pr == s.n[get_irn_n(x, 1)].part
            IN IF i = 0 THEN <<IF pl < pr THEN pl ELSE pr>>
               ELSE <<IF pl > pr THEN pl ELSE pr>>
       ELSE <<s.n[get_irn_n(x, i)].part>>

\* the listmap after the first loop of split_by_what: map.values, newest
\* entry first, every entry with its list (last added node first)
listmap_of(What(_, _), s, X) ==
    Fold(LAMBDA map_l, x_l :
           LET id == What(s, x_l)
           IN IF id = <<>> THEN map_l
              ELSE IF \E k \in 1..Len(map_l) : map_l[k].id = id
              THEN (<<>> \o [k \in 1..Len(map_l) |->
                      IF map_l[k].id = id
                      THEN [map_l[k] EXCEPT !.list = <<x_l>> \o @]
                      ELSE map_l[k]])
              ELSE <<[id |-> id, list |-> <<x_l>>]>> \o map_l,
         <<>>, s.p[X].Leader)

\* The result is [s, P]: P is the list of the partitions X was split into.
split_by_what(s, X, What(_, _), P) ==
    LET \* for all sets S except one in the range of map
        sets(map) == IF map = <<>> THEN <<>>
                     ELSE SubSeq(map, 1, Len(map) - 1)
        \* Add SPLIT( X, S ) to P.
        add(st, sp) == [s |-> sp.s, X |-> sp.X, P |-> <<sp.R>> \o st.P]
        \* Add X to P.
        result(r) == [s |-> r.s, P |-> <<r.X>> \o r.P]
    IN result(Fold(LAMBDA st_l, entry_l :
                     add(st_l, split(st_l.s, st_l.X, entry_l.list)),
                   [s |-> s, X |-> X, P |-> P],
                   sets(listmap_of(What, s, X))))

\* the type tag without the constants: set for Top only
type_tag_top(s, I) ==
    IF s.n[get_first_node(s, I)].type = tarval_top THEN 1 ELSE 0

type_tag(s, I) ==
    LET x == get_first_node(s, I)
    IN IF s.n[x].type = tarval_top \/ is_con(s.n[x].type) THEN 1 ELSE 0

\* one pass of split_by over the list R for one input position
split_by_input(s, R, what_commutative, input) ==
    Fold(LAMBDA st_l, Z_prime_l :
           IF st_l.s.p[Z_prime_l].n_leader > 1
           THEN split_by_what([st_l.s EXCEPT !.e.lambda_input = input],
                              Z_prime_l,
                              LAMBDA sw_l, n_l :
                                IF what_commutative
                                THEN lambda_commutative_partition(sw_l, n_l)
                                ELSE lambda_partition(sw_l, n_l),
                              st_l.P)
           ELSE [s |-> st_l.s, P |-> <<Z_prime_l>> \o st_l.P],
         [s |-> s, P |-> <<>>], R)

\* for (input = arity - 1; input >= -1; --input)
RECURSIVE split_by_inputs(_, _, _)
split_by_inputs(r, what_commutative, input) ==
    IF input < -1 THEN r.s
    ELSE split_by_inputs(split_by_input(r.s, r.P, what_commutative, input),
                         what_commutative, input - 1)

\* body of the loop over the partitions Z produced by the split by opcode
split_by_Z(s, Z) ==
    IF s.p[Z].n_leader > 1
    THEN LET first == get_first_node(s, Z)
             arity == get_irn_arity(first)
             comm  == s.e.commutative = 1
                      /\ is_op_commutative(get_irn_opcode(first))
         IN split_by_inputs([s |-> s, P |-> <<Z>>], comm, arity - 1)
    ELSE s

\* body of the loop over the partitions Y produced by the split by type
split_by_opcodes(q) == Fold(split_by_Z, q.s, q.P)

\* body of the loop over the partitions Y produced by the split by type
split_by_Y(s, Y) ==
    IF s.p[Y].n_leader > 1 /\ s.p[Y].type_is_T_or_C = 0
    THEN split_by_opcodes(split_by_what(s, Y, lambda_opcode, <<>>))
    ELSE s

\* adjust the type tags, we have split partitions by type
split_by_tags(r) ==
    [s |-> Fold(LAMBDA st_l, I_l :
                  [st_l EXCEPT !.p[I_l].type_is_T_or_C = type_tag(st_l, I_l)],
                r.s, r.P),
     P |-> r.P]

split_by_types(r) == Fold(split_by_Y, r.s, r.P)

split_by(s, X) ==
    IF s.p[X].n_leader = 1
    THEN [s EXCEPT !.p[X].type_is_T_or_C = type_tag(s, X)]
    ELSE split_by_types(split_by_tags(split_by_what(s, X, lambda_type, <<>>)))


(***************************************************************************)
(* propagate                                                               *)
(***************************************************************************)
\* a segregation that moves the edge to the front of the Leader edges but
\* does not count it as a Follower edge
segregate_def_use_chain_1_uncounted(s, follower, leader) ==
    LET E  == s.o[leader]
        n  == Len(E)
        nf == s.n[leader].n_followers
        i  == FirstIdx(LAMBDA ii_l : E[ii_l].use = follower, nf + 1, n)
    IN IF i > n THEN s
       ELSE [s EXCEPT !.o[leader] = SubSeq(E, 1, nf) \o <<E[i]>>
                                    \o SubSeq(E, nf + 1, i - 1)
                                    \o SubSeq(E, i + 1, n)]

segregate_def_use_chain_1(s, follower, leader) ==
    LET E  == s.o[leader]
        n  == Len(E)
        nf == s.n[leader].n_followers
        i  == FirstIdx(LAMBDA ii_l : E[ii_l].use = follower, nf + 1, n)
    IN IF i > n THEN s
       ELSE [s EXCEPT !.o[leader] = SubSeq(E, 1, nf) \o <<E[i]>>
                                    \o SubSeq(E, nf + 1, i - 1)
                                    \o SubSeq(E, i + 1, n),
                      !.n[leader].n_followers = nf + 1]

segregate_def_use_chain(s, follower) ==
    Fold(LAMBDA st_l, i_l :
           segregate_def_use_chain_1(st_l, follower, get_irn_n(follower, i_l)),
         s, DownTo(get_irn_arity(follower) - 1, 0))

\* verify_type: is the transition from old_type to new_type monotone
verify_type(old_type, new_type) ==
    \/ old_type = new_type
    \/ old_type = tarval_top
    \/ new_type = tarval_bottom
    \/ new_type = tarval_reachable

\* put x on the fallen list; d is [s, fallen, n_fallen, oldopcode]
add_to_fallen(d, x) ==
    IF d.s.n[x].on_fallen = 0
    THEN [d EXCEPT !.fallen = <<x>> \o @,
                   !.s.n[x].on_fallen = 1,
                   !.n_fallen = @ + 1]
    ELSE d

\* a transition that leaves the worklist as it is
propagate_lost_Phi_never(s, x) == s

\* In case of a follower -> leader transition of a Phi node put the current
\* partition in the worklist to repeat the check.
propagate_lost_Phi(s, x) ==
    IF is_Phi(x) /\ s.p[s.n[x].part].on_worklist = 0
    THEN add_to_worklist(s, s.n[x].part) ELSE s

\* x has made the transition in s3: its partition and the worklist before
\* and after the test on is_Phi
propagate_led(s3, s4, x) ==
    [s4 EXCEPT !.l = Append(@, [at |-> "propagate_leader", x |-> x,
                                part |-> s4.n[x].part,
                                is_follower |-> s4.n[x].is_follower,
                                on_worklist |-> s3.p[s3.n[x].part].on_worklist,
                                worklist |-> s3.e.worklist,
                                on_worklist_after |-> s4.p[s4.n[x].part].on_worklist,
                                worklist_after |-> s4.e.worklist])]

\* the follower x lost its identity while it waited on the cprop list
propagate_lost_follower(d, X, x) ==
    LET oldopcode == IF d.oldopcode = <<>>
                     THEN lambda_opcode(d.s, get_first_node(d.s, X))
                     ELSE d.oldopcode
        worklist(s3) == propagate_led(s3, propagate_lost_Phi(s3, x), x)
        \* x will make the follower -> leader transition
        leader(d2) == [d2 EXCEPT !.s = worklist(follower_to_leader(d2.s, x))]
    IN leader(IF oldopcode # lambda_opcode(d.s, x)
              THEN add_to_fallen([d EXCEPT !.oldopcode = oldopcode], x)
              ELSE [d EXCEPT !.oldopcode = oldopcode])

\* the type of x has changed: the cprop lists as they are after the loop
\* over the users of x
propagate_changed(s, x, old_type) ==
    [s EXCEPT !.l = Append(@, [at |-> "propagate_compute", x |-> x,
                               old_type |-> old_type, type |-> s.n[x].type,
                               on_cprop |-> [y \in DOMAIN s.n |-> s.n[y].on_cprop],
                               part |-> [y \in DOMAIN s.n |-> s.n[y].part],
                               cprop |-> [Y \in DOMAIN s.p |-> s.p[Y].cprop],
                               cprop_X |-> [Y \in DOMAIN s.p |-> s.p[Y].cprop_X],
                               env_cprop |-> s.e.cprop])]

\* a loop over the users of x that leaves out the first edge
propagate_compute_users_but_first(s, x) ==
    Reverse(<<>> \o [i \in 1..(Len(s.o[x]) - 1) |-> s.o[x][i + 1].use])

\* a loop over the users of x that stops after the last edge
propagate_compute_users_last(s, x) ==
    IF s.o[x] = <<>> THEN <<>> ELSE <<s.o[x][Len(s.o[x])].use>>

propagate_compute_users(s, x) ==
    Reverse(<<>> \o [i \in 1..Len(s.o[x]) |-> s.o[x][i].use])

\* compute a new type for x and place the users of x on cprop if it changed
propagate_compute(d, x) ==
    LET old_type == d.s.n[x].type
        users == propagate_compute_users(d.s, x)
        cprop(d1) == [d1 EXCEPT !.s = propagate_changed(
                                         Fold(add_to_cprop, d1.s, users),
                                         x, old_type)]
        \* x->type is new_type now; the change is noted in c
        typed(new_type) ==
            [d.s EXCEPT !.n[x].type = new_type,
                        !.c = @ \cup {<<x, old_type, new_type>>}]
        changed(new_type) ==
            IF new_type # old_type
            THEN cprop(add_to_fallen(
                    [d EXCEPT !.s =
                        IF verify_type(old_type, new_type)
                        THEN typed(new_type)
                        ELSE Panic(typed(new_type), "verify_type")], x))
            ELSE d
    IN changed(compute(d.s, x))

\* the inner loop of propagate: drain X.cprop, then X.cprop_X
propagate_lost(d1, X, x) ==
    IF d1.s.n[x].is_follower = 1 /\ identity(d1.s, x) = x
    THEN propagate_lost_follower(d1, X, x) ELSE d1

propagate_drained(d, X) ==
    d.s.p[X].cprop = <<>> /\ d.s.p[X].cprop_X = <<>>

\* propagate takes x from the list `from' of X: the two lists as they are
\* before x is unlinked
propagate_takes(d, X, x, from) ==
    [d EXCEPT !.s.l = Append(@, [at |-> "propagate_drain", X |-> X, x |-> x,
                                 from |-> from, part |-> d.s.n[x].part,
                                 cprop |-> d.s.p[X].cprop,
                                 cprop_X |-> d.s.p[X].cprop_X])]

\* a drain that takes the Conds, the Switches and their Projs first
propagate_drain_1_X_first(d, X) ==
    LET cprop_X_empty == d.s.p[X].cprop_X = <<>>
        x == IF cprop_X_empty THEN Head(d.s.p[X].cprop)
             ELSE Head(d.s.p[X].cprop_X)
    IN propagate_compute(
          propagate_lost(
             IF cprop_X_empty
             THEN [propagate_takes(d, X, x, "cprop")
                     EXCEPT !.s.p[X].cprop = Tail(@),
                            !.s.n[x].on_cprop = 0]
             ELSE [propagate_takes(d, X, x, "cprop_X")
                     EXCEPT !.s.p[X].cprop_X = Tail(@),
                            !.s.n[x].on_cprop = 0], X, x), x)

\* one iteration: take x from X.cprop, or from X.cprop_X if that is empty
propagate_drain_1(d, X) ==
    LET cprop_empty == d.s.p[X].cprop = <<>>
        x == IF cprop_empty THEN Head(d.s.p[X].cprop_X)
             ELSE Head(d.s.p[X].cprop)
    IN propagate_compute(
          propagate_lost(
             IF cprop_empty
             THEN [propagate_takes(d, X, x, "cprop_X")
                     EXCEPT !.s.p[X].cprop_X = Tail(@),
                            !.s.n[x].on_cprop = 0]
             ELSE [propagate_takes(d, X, x, "cprop")
                     EXCEPT !.s.p[X].cprop = Tail(@),
                            !.s.n[x].on_cprop = 0], X, x), x)

propagate_drain(d, X) ==
    While(LAMBDA d_l : propagate_drain_1(d_l, X),
          LAMBDA d_l : propagate_drained(d_l, X), d)

\* leader -> follower transition of y if it is a copy of a node of its partition
leader_to_follower(s, Y, y) ==
    LET moved(P1) ==
            [s EXCEPT !.n[y].is_follower = 1,
                      !.p = [P1 EXCEPT ![Y].Follower = Append(@, y),
                                       ![Y].n_leader = @ - 1]]
        follow(eq_node) ==
            IF eq_node = 0 THEN Panic(s, "identity_Phi: n_part != NULL")
            ELSE IF eq_node # y /\ s.n[eq_node].part = s.n[y].part
            THEN segregate_def_use_chain(moved(list_del_node(s.p, y)), y)
            ELSE s
    IN IF s.n[y].type # tarval_top /\ ~is_con(s.n[y].type)
       THEN follow(identity(s, y))
       ELSE s

\* one iteration of the loop of propagate: the first partition of env->cprop
\* The type of the result partition is NOT set yet.
propagate_fell(r, fallen) ==
    [s |-> [r.s EXCEPT !.p[r.R].type_is_T_or_C = 0], Y |-> r.R,
     fallen |-> fallen]

\* the partition X that propagate has taken from env->cprop and drained, and
\* the partition Y that it hands to split_by
propagate_fallen(f, X, n_fallen) ==
    [f EXCEPT !.s.l = Append(@, [at |-> "propagate_fall", X |-> X, Y |-> f.Y,
                                 n_fallen |-> n_fallen])]

\* a propagate that splits by every fallen list that is not empty
propagate_fall_any(d, X) ==
    propagate_fallen(
       IF d.n_fallen > 0
       THEN propagate_fell(split(d.s, X, d.fallen), d.fallen)
       ELSE [s |-> d.s, Y |-> X, fallen |-> d.fallen],
       X, d.n_fallen)

propagate_fall(d, X) ==
    propagate_fallen(
       IF d.n_fallen > 0 /\ d.n_fallen # d.s.p[X].n_leader
       THEN propagate_fell(split(d.s, X, d.fallen), d.fallen)
       ELSE [s |-> d.s, Y |-> X, fallen |-> d.fallen],
       X, d.n_fallen)

\* remove the flags from the fallen list
propagate_flags(f) ==
    [s |-> [f.s EXCEPT !.n = (<<>> \o [x \in DOMAIN @ |->
                                IF x \in Range(f.fallen)
                                THEN [@[x] EXCEPT !.on_fallen = 0]
                                ELSE @[x]])],
     Y |-> f.Y]

\* the Leader list of Y before and after the loop over the Leaders of Y
propagate_followed(f, g) ==
    [g EXCEPT !.s.l = Append(@, [at |-> "propagate_followers", Y |-> f.Y,
                                 Leader |-> f.s.p[f.Y].Leader,
                                 Leader_after |-> g.s.p[f.Y].Leader,
                                 n_leader_after |-> g.s.p[f.Y].n_leader])]

\* check if some nodes will make the leader -> follower transition
propagate_followers(f, old_type_was_T_or_C) ==
    propagate_followed(f,
       [s |-> IF old_type_was_T_or_C = 1
              THEN Fold(LAMBDA st_l, y_l : leader_to_follower(st_l, f.Y, y_l),
                        f.s, f.s.p[f.Y].Leader)
              ELSE f.s,
        Y |-> f.Y])

propagate_split_by(f) == split_by(f.s, f.Y)

\* one iteration of the loop of propagate: the first partition of env->cprop
propagate_partition(s) ==
    LET X == Head(s.e.cprop)
    IN take_snapshot(propagate_split_by(propagate_followers(propagate_flags(
          propagate_fall(
             propagate_drain([s |-> [s EXCEPT !.p[X].on_cprop = 0,
                                              !.e.cprop = Tail(@)],
                              fallen |-> <<>>, n_fallen |-> 0,
                              oldopcode |-> <<>>], X),
             X)), s.p[X].type_is_T_or_C)), "propagate")


(***************************************************************************)
(* The graphs the analysis runs on.  Every graph is a function with        *)
(* one argument a:                                                         *)
(*                                                                         *)
(*    B1:  d1 = op1(a, c0);  d3 = op3(..);  if (Cmp(l, r))                 *)
(*    B2:  (then)     B3:  (else)                                          *)
(*    B4:  phi = Phi(p, q);  d2 = op2(phi, z);  return d2                  *)
(***************************************************************************)
\* the nodes of the graphs, by their index in irg
Id ==
    [Bs |-> 1, Start |-> 2, X0 |-> 3, M |-> 4, T |-> 5,
     A |-> 6, C0 |-> 7, C1 |-> 8, B1 |-> 9, D1 |-> 10,
     D3 |-> 11, Cmp |-> 12, Cond |-> 13, Pf |-> 14, Pt |-> 15,
     B2 |-> 16, J2 |-> 17, B3 |-> 18, J3 |-> 19, B4 |-> 20,
     Phi |-> 21, D2 |-> 22, Ret |-> 23, Bend |-> 24, End |-> 25]

Diamond(g) ==
    <<IrNode("Block", "BB", 0, <<>>, 0),
      IrNode("Start", "T", Id.Bs, <<>>, 0),
      IrNode("Proj", "X", Id.Bs, <<Id.Start>>, pn_Start.X_initial_exec),
      IrNode("Proj", "M", Id.Bs, <<Id.Start>>, pn_Start.M),
      IrNode("Proj", "T", Id.Bs, <<Id.Start>>, pn_Start.T_args),
      IrNode("Proj", "Bs", Id.Bs, <<Id.T>>, 0),
      IrNode("Const", "Bs", Id.Bs, <<>>, g.v0),
      IrNode("Const", "Bs", Id.Bs, <<>>, g.v1),
      IrNode("Block", "BB", 0, <<Id.X0>>, 0),
      IrNode(g.op1, "Bs", Id.B1, <<Id.A, Id.C0>>, 0),
      IrNode(g.d3[1], "Bs", Id.B1, <<g.d3[2], g.d3[3]>>, 0),
      IrNode("Cmp", "b", Id.B1, <<g.cmp[1], g.cmp[2]>>, g.cmp[3]),
      IrNode("Cond", "T", Id.B1, <<Id.Cmp>>, 0),
      IrNode("Proj", "X", Id.B1, <<Id.Cond>>, pn_Cond_false),
      IrNode("Proj", "X", Id.B1, <<Id.Cond>>, pn_Cond_true),
      IrNode("Block", "BB", 0, <<Id.Pt>>, 0),
      IrNode("Jmp", "X", Id.B2, <<>>, 0),
      IrNode("Block", "BB", 0, <<Id.Pf>>, 0),
      IrNode("Jmp", "X", Id.B3, <<>>, 0),
      IrNode("Block", "BB", 0, <<Id.J2, Id.J3>>, 0),
      IrNode("Phi", "Bs", Id.B4, <<g.phi[1], g.phi[2]>>, 0),
      IrNode(g.d2[1], "Bs", Id.B4, <<Id.Phi, g.d2[2]>>, 0),
      IrNode("Return", "X", Id.B4, <<Id.M, Id.D2>>, 0),
      IrNode("Block", "BB", 0, <<Id.Ret>>, 0),
      IrNode("End", "X", Id.Bend, <<>>, 0)>>

GraphParams ==
    [v0  : 0..MaxVal,
     v1  : 0..MaxVal,
     op1 : {"Add", "Sub"},
     d3  : {<<"Add", Id.C0, Id.A>>, <<"Sub", Id.D1, Id.A>>, <<"Mul", Id.A, Id.C1>>,
            <<"Sub", Id.A, Id.A>>},
     cmp : {<<Id.D1, Id.A, ir_relation_equal>>, <<Id.D1, Id.D3, ir_relation_less>>,
            <<Id.C0, Id.C1, ir_relation_equal>>},
     phi : {<<Id.A, Id.D1>>, <<Id.C0, Id.C1>>, <<Id.D1, Id.D3>>},
     d2  : {<<"Add", Id.D3>>, <<"Sub", Id.A>>}]

\* a loop: the header B1 with the Phi, the body B2 with the jump back to the
\* header, the exit B3
Loop(g) ==
    <<IrNode("Block", "BB", 0, <<>>, 0),
      IrNode("Start", "T", Id.Bs, <<>>, 0),
      IrNode("Proj", "X", Id.Bs, <<Id.Start>>, pn_Start.X_initial_exec),
      IrNode("Proj", "M", Id.Bs, <<Id.Start>>, pn_Start.M),
      IrNode("Proj", "T", Id.Bs, <<Id.Start>>, pn_Start.T_args),
      IrNode("Proj", "Bs", Id.Bs, <<Id.T>>, 0),
      IrNode("Const", "Bs", Id.Bs, <<>>, g.v0),
      IrNode("Const", "Bs", Id.Bs, <<>>, g.v1),
      IrNode("Block", "BB", 0, <<Id.X0, Id.J2>>, 0),
      IrNode(g.op1, "Bs", Id.B2, <<Id.Phi, Id.C1>>, 0),
      IrNode(g.d3[1], "Bs", Id.B1, <<g.d3[2], g.d3[3]>>, 0),
      IrNode("Cmp", "b", Id.B1, <<g.cmp[1], g.cmp[2]>>, g.cmp[3]),
      IrNode("Cond", "T", Id.B1, <<Id.Cmp>>, 0),
      IrNode("Proj", "X", Id.B1, <<Id.Cond>>, pn_Cond_false),
      IrNode("Proj", "X", Id.B1, <<Id.Cond>>, pn_Cond_true),
      IrNode("Block", "BB", 0, <<Id.Pt>>, 0),
      IrNode("Jmp", "X", Id.B2, <<>>, 0),
      IrNode("Block", "BB", 0, <<Id.Pf>>, 0),
      IrNode("Jmp", "X", Id.B3, <<>>, 0),
      IrNode("Block", "BB", 0, <<Id.J3>>, 0),
      IrNode("Phi", "Bs", Id.B1, <<g.init, Id.D1>>, 0),
      IrNode(g.d2[1], "Bs", Id.B4, <<Id.Phi, g.d2[2]>>, 0),
      IrNode("Return", "X", Id.B4, <<Id.M, Id.D2>>, 0),
      IrNode("Block", "BB", 0, <<Id.Ret>>, 0),
      IrNode("End", "X", Id.Bend, <<>>, 0)>>

LoopParams ==
    [v0   : 0..MaxVal,
     v1   : 0..MaxVal,
     op1  : {"Add", "Sub"},
     init : {Id.C0, Id.A},
     d3   : {<<"Add", Id.Phi, Id.C0>>, <<"Mul", Id.A, Id.C1>>},
     cmp  : {<<Id.Phi, Id.C1, ir_relation_less>>, <<Id.Phi, Id.D3, ir_relation_equal>>,
             <<Id.C0, Id.C1, ir_relation_equal>>},
     d2   : {<<"Add", Id.D3>>, <<"Sub", Id.A>>}]


\* two Conds in a row on the same value x:
\*    B1: if (x == 2) B2: P;   B3: if (x == 3) B4: Q;   B5: return a + x
Ic ==
    [Bs |-> 1, Start |-> 2, X0 |-> 3, M |-> 4, T |-> 5,
     A |-> 6, U |-> 7, K2 |-> 8, K3 |-> 9, B1 |-> 10,
     Cmp1 |-> 11, Cond1 |-> 12, Pf1 |-> 13, Pt1 |-> 14, B2 |-> 15,
     J2 |-> 16, B3 |-> 17, Cmp2 |-> 18, Cond2 |-> 19, Pf2 |-> 20,
     Pt2 |-> 21, B4 |-> 22, J4 |-> 23, B5 |-> 24, V |-> 25,
     Ret |-> 26, Bend |-> 27, End |-> 28]

TwoConds(g) ==
    <<IrNode("Block", "BB", 0, <<>>, 0),
      IrNode("Start", "T", Ic.Bs, <<>>, 0),
      IrNode("Proj", "X", Ic.Bs, <<Ic.Start>>, pn_Start.X_initial_exec),
      IrNode("Proj", "M", Ic.Bs, <<Ic.Start>>, pn_Start.M),
      IrNode("Proj", "T", Ic.Bs, <<Ic.Start>>, pn_Start.T_args),
      IrNode("Proj", "Bs", Ic.Bs, <<Ic.T>>, 0),
      IrNode("Unknown", "Bs", Ic.Bs, <<>>, 0),
      IrNode("Const", "Bs", Ic.Bs, <<>>, 2),
      IrNode("Const", "Bs", Ic.Bs, <<>>, 3),
      IrNode("Block", "BB", 0, <<Ic.X0>>, 0),
      IrNode("Cmp", "b", Ic.B1, <<g.x, Ic.K2>>, g.rel),
      IrNode("Cond", "T", Ic.B1, <<Ic.Cmp1>>, 0),
      IrNode("Proj", "X", Ic.B1, <<Ic.Cond1>>, pn_Cond_false),
      IrNode("Proj", "X", Ic.B1, <<Ic.Cond1>>, pn_Cond_true),
      IrNode("Block", "BB", 0, <<Ic.Pt1>>, 0),
      IrNode("Jmp", "X", Ic.B2, <<>>, 0),
      IrNode("Block", "BB", 0, <<Ic.Pf1, Ic.J2>>, 0),
      IrNode("Cmp", "b", Ic.B3, <<g.x, Ic.K3>>, g.rel),
      IrNode("Cond", "T", Ic.B3, <<Ic.Cmp2>>, 0),
      IrNode("Proj", "X", Ic.B3, <<Ic.Cond2>>, pn_Cond_false),
      IrNode("Proj", "X", Ic.B3, <<Ic.Cond2>>, pn_Cond_true),
      IrNode("Block", "BB", 0, <<Ic.Pt2>>, 0),
      IrNode("Jmp", "X", Ic.B4, <<>>, 0),
      IrNode("Block", "BB", 0, <<Ic.Pf2, Ic.J4>>, 0),
      IrNode("Add", "Bs", Ic.B5, <<Ic.A, Ic.U>>, 0),
      IrNode("Return", "X", Ic.B5, <<Ic.M, Ic.V>>, 0),
      IrNode("Block", "BB", 0, <<Ic.Ret>>, 0),
      IrNode("End", "X", Ic.Bend, <<>>, 0)>>

TwoCondsParams ==
    [x : {Ic.U, Ic.A}, rel : {ir_relation_equal, ir_relation_less}]

\* the largest value a Switch selector takes
MaxSel == MaxVal + 2

\* the table of the Switch: 1 -> Proj 1, 2..MaxSel -> Proj 2, else default
SwitchTable(mode) ==
    <<ir_switch_table_entry(new_tarval(mode, 1), new_tarval(mode, 1), 1),
      ir_switch_table_entry(new_tarval(mode, 2), new_tarval(mode, MaxSel), 2)>>

\* a Switch in a loop: the header B1 with a Phi as the selector, the default
\* case jumping back to the header, the two other cases returning
Is ==
    [Bs |-> 1, Start |-> 2, X0 |-> 3, M |-> 4, T |-> 5,
     A |-> 6, U |-> 7, K |-> 8, B1 |-> 9, Phi |-> 10,
     Switch |-> 11, Pd |-> 12, P1 |-> 13, P2 |-> 14, Bd |-> 15,
     Jd |-> 16, Bc1 |-> 17, Ret1 |-> 18, Bc2 |-> 19, V |-> 20,
     Ret2 |-> 21, Bend |-> 22, End |-> 23]

SwitchLoop(g) ==
    <<IrNode("Block", "BB", 0, <<>>, 0),
      IrNode("Start", "T", Is.Bs, <<>>, 0),
      IrNode("Proj", "X", Is.Bs, <<Is.Start>>, pn_Start.X_initial_exec),
      IrNode("Proj", "M", Is.Bs, <<Is.Start>>, pn_Start.M),
      IrNode("Proj", "T", Is.Bs, <<Is.Start>>, pn_Start.T_args),
      IrNode("Proj", "Bs", Is.Bs, <<Is.T>>, 0),
      IrNode("Unknown", "Bs", Is.Bs, <<>>, 0),
      IrNode("Const", "Bs", Is.Bs, <<>>, g.k),
      IrNode("Block", "BB", 0, <<Is.X0, Is.Jd>>, 0),
      IrNode("Phi", "Bs", Is.B1, <<g.phi[1], g.phi[2]>>, 0),
      [IrNode("Switch", "T", Is.B1, <<Is.Phi>>, 0)
          EXCEPT !.table = SwitchTable("Bs")],
      IrNode("Proj", "X", Is.B1, <<Is.Switch>>, pn_Switch_default),
      IrNode("Proj", "X", Is.B1, <<Is.Switch>>, 1),
      IrNode("Proj", "X", Is.B1, <<Is.Switch>>, 2),
      IrNode("Block", "BB", 0, <<Is.Pd>>, 0),
      IrNode("Jmp", "X", Is.Bd, <<>>, 0),
      IrNode("Block", "BB", 0, <<Is.P1>>, 0),
      IrNode("Return", "X", Is.Bc1, <<Is.M, Is.Phi>>, 0),
      IrNode("Block", "BB", 0, <<Is.P2>>, 0),
      IrNode("Add", "Bs", Is.Bc2, <<Is.A, Is.U>>, 0),
      IrNode("Return", "X", Is.Bc2, <<Is.M, Is.V>>, 0),
      IrNode("Block", "BB", 0, <<Is.Ret1, Is.Ret2>>, 0),
      IrNode("End", "X", Is.Bend, <<>>, 0)>>

SwitchLoopParams ==
    [k   : 0..MaxSel,
     phi : {<<Is.K, Is.K>>, <<Is.U, Is.K>>, <<Is.A, Is.K>>}]

\* a diamond with two Phis of the same operands at the join
Ip ==
    [Bs |-> 1, Start |-> 2, X0 |-> 3, M |-> 4, T |-> 5,
     A |-> 6, U |-> 7, K5 |-> 8, K7 |-> 9, B1 |-> 10,
     Cmp |-> 11, Cond |-> 12, Pf |-> 13, Pt |-> 14, B2 |-> 15,
     J2 |-> 16, B3 |-> 17, J3 |-> 18, B4 |-> 19, Phi1 |-> 20,
     Phi2 |-> 21, V |-> 22, W |-> 23, D |-> 24, Ret |-> 25,
     Bend |-> 26, End |-> 27]

TwoPhis(g) ==
    <<IrNode("Block", "BB", 0, <<>>, 0),
      IrNode("Start", "T", Ip.Bs, <<>>, 0),
      IrNode("Proj", "X", Ip.Bs, <<Ip.Start>>, pn_Start.X_initial_exec),
      IrNode("Proj", "M", Ip.Bs, <<Ip.Start>>, pn_Start.M),
      IrNode("Proj", "T", Ip.Bs, <<Ip.Start>>, pn_Start.T_args),
      IrNode("Proj", "Bs", Ip.Bs, <<Ip.T>>, 0),
      IrNode("Unknown", "Bs", Ip.Bs, <<>>, 0),
      IrNode("Const", "Bs", Ip.Bs, <<>>, 5),
      IrNode("Const", "Bs", Ip.Bs, <<>>, 7),
      IrNode("Block", "BB", 0, <<Ip.X0>>, 0),
      IrNode("Cmp", "b", Ip.B1, <<g.x, Ip.K7>>, ir_relation_equal),
      IrNode("Cond", "T", Ip.B1, <<Ip.Cmp>>, 0),
      IrNode("Proj", "X", Ip.B1, <<Ip.Cond>>, pn_Cond_false),
      IrNode("Proj", "X", Ip.B1, <<Ip.Cond>>, pn_Cond_true),
      IrNode("Block", "BB", 0, <<Ip.Pt>>, 0),
      IrNode("Jmp", "X", Ip.B2, <<>>, 0),
      IrNode("Block", "BB", 0, <<Ip.Pf>>, 0),
      IrNode("Jmp", "X", Ip.B3, <<>>, 0),
      IrNode("Block", "BB", 0, <<Ip.J2, Ip.J3>>, 0),
      IrNode("Phi", "Bs", Ip.B4, <<g.p, Ip.K5>>, 0),
      IrNode("Phi", "Bs", Ip.B4, <<g.p, Ip.K5>>, 0),
      IrNode("Add", "Bs", Ip.B4, <<Ip.A, Ip.U>>, 0),
      IrNode("Add", "Bs", Ip.B4, <<Ip.Phi2, Ip.V>>, 0),
      IrNode("Add", "Bs", Ip.B4, <<Ip.Phi1, Ip.W>>, 0),
      IrNode("Return", "X", Ip.B4, <<Ip.M, Ip.D>>, 0),
      IrNode("Block", "BB", 0, <<Ip.Ret>>, 0),
      IrNode("End", "X", Ip.Bend, <<>>, 0)>>

TwoPhisParams == [x : {Ip.A, Ip.K5}, p : {Ip.U, Ip.A, Ip.K7}]


\* straight-line code, two chains of Adds that start from P and R:
\*    B1: P = a + p; R = a + r (or r + a); A1 = P + a; A2 = R + a (or a + R);
\*        C1 = A1 + a (or A2 + a); C2 = A2 + a (or a + A2);
\*        C3 = A1 + a (or A2 + a);
\*        return (C1 + C2) + C3
Ih ==
    [Bs |-> 1, Start |-> 2, X0 |-> 3, M |-> 4, T |-> 5,
     A |-> 6, K |-> 7, B1 |-> 8, P |-> 9, R |-> 10,
     A1 |-> 11, A2 |-> 12, C1 |-> 13, C2 |-> 14, C3 |-> 15,
     S |-> 16, S2 |-> 17, Ret |-> 18, Bend |-> 19, End |-> 20]

Chain(g) ==
    <<IrNode("Block", "BB", 0, <<>>, 0),
      IrNode("Start", "T", Ih.Bs, <<>>, 0),
      IrNode("Proj", "X", Ih.Bs, <<Ih.Start>>, pn_Start.X_initial_exec),
      IrNode("Proj", "M", Ih.Bs, <<Ih.Start>>, pn_Start.M),
      IrNode("Proj", "T", Ih.Bs, <<Ih.Start>>, pn_Start.T_args),
      IrNode("Proj", "Bs", Ih.Bs, <<Ih.T>>, 0),
      IrNode("Const", "Bs", Ih.Bs, <<>>, 1),
      IrNode("Block", "BB", 0, <<Ih.X0>>, 0),
      IrNode("Add", "Bs", Ih.B1, <<Ih.A, g.p>>, 0),
      IrNode("Add", "Bs", Ih.B1, <<g.r[1], g.r[2]>>, 0),
      IrNode(g.op, "Bs", Ih.B1, <<Ih.P, Ih.A>>, 0),
      IrNode(g.op, "Bs", Ih.B1, <<g.a2[1], g.a2[2]>>, 0),
      IrNode(g.op, "Bs", Ih.B1, <<g.c1, Ih.A>>, 0),
      IrNode(g.op, "Bs", Ih.B1, <<g.c2[1], g.c2[2]>>, 0),
      IrNode(g.op, "Bs", Ih.B1, <<g.c3, Ih.A>>, 0),
      IrNode("Add", "Bs", Ih.B1, <<Ih.C1, Ih.C2>>, 0),
      IrNode("Add", "Bs", Ih.B1, <<Ih.S, Ih.C3>>, 0),
      IrNode("Return", "X", Ih.B1, <<Ih.M, Ih.S2>>, 0),
      IrNode("Block", "BB", 0, <<Ih.Ret>>, 0),
      IrNode("End", "X", Ih.Bend, <<>>, 0)>>

ChainParams ==
    [p  : {Ih.A, Ih.K},
     r  : {<<Ih.A, Ih.A>>, <<Ih.A, Ih.K>>, <<Ih.K, Ih.A>>},
     a2 : {<<Ih.R, Ih.A>>, <<Ih.A, Ih.R>>},
     c2 : {<<Ih.A2, Ih.A>>, <<Ih.A, Ih.A2>>},
     c1 : {Ih.A1, Ih.A2},
     c3 : {Ih.A1, Ih.A2},
     op : {"Add", "Sub"}]


\* a diamond with a Phi of the ends of two chains of Adds and a copy of each
\* of them:
\*    B1: P = a + p; R = a + r; D1 = P + a; D3 = R + a;
\*        F = f1 + 0; F2 = f2 + 0   (f1, f2 are D1, D3 in one of the orders);
\*        if (af == af) B2 else B3    (af a floating point argument)
\*    B4: phi = Phi(D1, D3) (or Phi(D3, D1)); return (phi + F) + F2
Iq ==
    [Bs |-> 1, Start |-> 2, X0 |-> 3, M |-> 4, T |-> 5,
     A |-> 6, K |-> 7, Z |-> 8, Af |-> 9, B1 |-> 10, P |-> 11,
     R |-> 12, D1 |-> 13, D3 |-> 14, F |-> 15, F2 |-> 16, Cmp |-> 17,
     Cond |-> 18, Pf |-> 19, Pt |-> 20, B2 |-> 21, J2 |-> 22,
     B3 |-> 23, J3 |-> 24, B4 |-> 25, Phi |-> 26, S |-> 27, S2 |-> 28,
     Ret |-> 29, Bend |-> 30, End |-> 31]

PhiOfChains(g) ==
    <<IrNode("Block", "BB", 0, <<>>, 0),
      IrNode("Start", "T", Iq.Bs, <<>>, 0),
      IrNode("Proj", "X", Iq.Bs, <<Iq.Start>>, pn_Start.X_initial_exec),
      IrNode("Proj", "M", Iq.Bs, <<Iq.Start>>, pn_Start.M),
      IrNode("Proj", "T", Iq.Bs, <<Iq.Start>>, pn_Start.T_args),
      IrNode("Proj", "Bs", Iq.Bs, <<Iq.T>>, 0),
      IrNode("Const", "Bs", Iq.Bs, <<>>, 1),
      IrNode("Const", "Bs", Iq.Bs, <<>>, 0),
      IrNode("Proj", "F", Iq.Bs, <<Iq.T>>, 1),
      IrNode("Block", "BB", 0, <<Iq.X0>>, 0),
      IrNode("Add", "Bs", Iq.B1, <<Iq.A, g.p>>, 0),
      IrNode("Add", "Bs", Iq.B1, <<Iq.A, g.r>>, 0),
      IrNode("Add", "Bs", Iq.B1, <<Iq.P, Iq.A>>, 0),
      IrNode("Add", "Bs", Iq.B1, <<Iq.R, Iq.A>>, 0),
      IrNode("Add", "Bs", Iq.B1, <<g.f[1], Iq.Z>>, 0),
      IrNode("Add", "Bs", Iq.B1, <<g.f[2], Iq.Z>>, 0),
      IrNode("Cmp", "b", Iq.B1, <<Iq.Af, Iq.Af>>, ir_relation_equal),
      IrNode("Cond", "T", Iq.B1, <<Iq.Cmp>>, 0),
      IrNode("Proj", "X", Iq.B1, <<Iq.Cond>>, pn_Cond_false),
      IrNode("Proj", "X", Iq.B1, <<Iq.Cond>>, pn_Cond_true),
      IrNode("Block", "BB", 0, <<Iq.Pt>>, 0),
      IrNode("Jmp", "X", Iq.B2, <<>>, 0),
      IrNode("Block", "BB", 0, <<Iq.Pf>>, 0),
      IrNode("Jmp", "X", Iq.B3, <<>>, 0),
      IrNode("Block", "BB", 0, <<Iq.J2, Iq.J3>>, 0),
      IrNode("Phi", "Bs", Iq.B4, <<g.phi[1], g.phi[2]>>, 0),
      IrNode("Add", "Bs", Iq.B4, <<Iq.Phi, Iq.F>>, 0),
      IrNode("Add", "Bs", Iq.B4, <<Iq.S, Iq.F2>>, 0),
      IrNode("Return", "X", Iq.B4, <<Iq.M, Iq.S2>>, 0),
      IrNode("Block", "BB", 0, <<Iq.Ret>>, 0),
      IrNode("End", "X", Iq.Bend, <<>>, 0)>>

PhiOfChainsParams ==
    [p   : {Iq.A, Iq.K},
     r   : {Iq.A, Iq.K},
     f   : {<<Iq.D1, Iq.D3>>, <<Iq.D3, Iq.D1>>},
     phi : {<<Iq.D1, Iq.D3>>, <<Iq.D3, Iq.D1>>}]


(***************************************************************************)
(* Initialisation: the walk over the graph, the Def-Use edges, the         *)
(* initial partition.                                                      *)
(***************************************************************************)
\* irg_walk_graph: the depth-first walk from End, a node's block first, then
\* its inputs from the last to the first.  st.pre and st.post are the nodes
\* in the order in which the pre and the post walker see them, st.stack the
\* calls of the walker that have not returned: node n, next input i (the
\* block is input Len(in) + 1).
irg_walk_frame(G, n) ==
    [n |-> n, i |-> IF G[n].op = "Block" THEN Len(G[n].in)
                    ELSE Len(G[n].in) + 1]

irg_walk_input(G, n, i) == IF i > Len(G[n].in) THEN G[n].blk ELSE G[n].in[i]

\* one step of the walk: enter the next input of the innermost call, or
\* return from it
irg_walk_step(G, st) ==
    IF st.stack = <<>> THEN st
    ELSE LET top == Len(st.stack)
             n == st.stack[top].n
             i == st.stack[top].i
         IN IF i < 1
            THEN [st EXCEPT !.post = Append(@, n),
                            !.stack = SubSeq(@, 1, top - 1)]
            ELSE IF irg_walk_input(G, n, i) \in Range(st.pre)
            THEN [st EXCEPT !.stack[top].i = i - 1]
            ELSE [st EXCEPT
                    !.pre = Append(@, irg_walk_input(G, n, i)),
                    !.stack = Append([@ EXCEPT ![top].i = i - 1],
                                     irg_walk_frame(G, irg_walk_input(G, n, i)))]

get_irg_end(G) == CHOOSE n \in 1..Len(G) : G[n].op = "End"

MaxArity(G) == Fold(LAMBDA m_l, x_l : Max2(m_l, Len(G[x_l].in)), 0,
                    (<<>> \o [i \in 1..Len(G) |-> i]))

irg_walk_graph(G) ==
    While(LAMBDA st_l : irg_walk_step(G, st_l),
          LAMBDA st_l : st_l.stack = <<>>,
          [pre |-> <<get_irg_end(G)>>, post |-> <<>>,
           stack |-> <<irg_walk_frame(G, get_irg_end(G))>>])

\* init_block_phis: add_Block_phi puts the Phi in front of the list
init_block_phis(G) ==
    LET post == irg_walk_graph(G).post
    IN (<<>> \o [b \in 1..Len(G) |->
          [G[b] EXCEPT !.phis =
              IF G[b].op = "Block"
              THEN Reverse(SelectSeq(post, LAMBDA x_l : G[x_l].op = "Phi"
                                                     /\ G[x_l].blk = b))
              ELSE <<>>]])

\* the users of d at input position pos; tie orders the edges of equal
\* position, which qsort leaves in any order
EdgesAt(G, live, d, pos, tie) ==
    LET users == SetToSeq({u \in live :
                     IF pos = -1 THEN G[u].op # "Block" /\ G[u].blk = d
                     ELSE pos < Len(G[u].in) /\ G[u].in[pos + 1] = d})
        edges == (<<>> \o [i \in 1..Len(users) |-> [use |-> users[i], pos |-> pos]])
    IN IF tie = 0 THEN edges ELSE Reverse(edges)

\* the Def-Use edges of d after sort_irn_outs
sort_irn_outs(G, live, d, tie) ==
    Fold(LAMBDA E_l, pos_l : E_l \o EdgesAt(G, live, d, pos_l, tie), <<>>,
         UpTo(-1, MaxArity(G) - 1))

create_partition_node(part, max_user_input) ==
    [part |-> part, type |-> tarval_top, max_user_input |-> max_user_input,
     next_edge |-> 0, n_followers |-> 0, on_touched |-> 0, on_cprop |-> 0,
     on_fallen |-> 0, is_follower |-> 0, flagged |-> 0]

get_irg_start_block == irg[CHOOSE n \in Nodes : irg[n].op = "Start"].blk

\* combo() up to the loop of the analysis
combo_init(tie, gcse) ==
    LET E == [worklist |-> <<1>>, cprop |-> <<>>, touched |-> <<>>,
              initial |-> 1, end_idx |-> IF gcse = 1 THEN 0 ELSE -1,
              lambda_input |-> 0, modified |-> 0, unopt_cf |-> 0,
              commutative |-> 1, opt_unknown |-> 1, panic |-> {}]
        \* create_initial_partitions on every node the walk reaches
        initial(N, pre) ==
            [EmptyPartition EXCEPT
               !.Leader = pre,
               !.n_leader = Len(pre),
               !.max_user_inputs =
                   Fold(LAMBDA m_l, x_l : Max2(m_l, N[x_l].max_user_input),
                        0, pre),
               !.on_worklist = 1,
               !.type_is_T_or_C = 1]
        partitions(O, N, pre) ==
            [o |-> O, n |-> N, p |-> <<initial(N, pre)>>, e |-> E, t |-> <<>>,
             c |-> {}, l |-> <<>>]
        nodes(O, pre) ==
            partitions(O,
                       (<<>> \o [x \in Nodes |->
                          create_partition_node(1, IF O[x] = <<>> THEN -1
                                                   ELSE O[x][Len(O[x])].pos)]),
                       pre)
        edges(pre, live) ==
            nodes((<<>> \o [d \in Nodes |-> sort_irn_outs(irg, live, d, tie)]),
                  pre)
        walk(pre) == edges(pre, Range(pre))
    IN take_snapshot(add_to_cprop(walk(irg_walk_graph(irg).pre),
                                  get_irg_start_block), "combo")

\* the graphs of which the walk from End reaches every node
Graphs ==
    {G \in {Diamond(g) : g \in GraphParams} \cup {Loop(g) : g \in LoopParams}
               \cup {TwoConds(g) : g \in TwoCondsParams}
               \cup {SwitchLoop(g) : g \in SwitchLoopParams}
               \cup {TwoPhis(g) : g \in TwoPhisParams}
               \cup {Chain(g) : g \in ChainParams}
               \cup {PhiOfChains(g) : g \in PhiOfChainsParams} :
        Len(irg_walk_graph(G).pre) = Len(G)}

NoEnv ==
    [worklist |-> <<>>, cprop |-> <<>>, touched |-> <<>>,
     initial |-> 0, end_idx |-> 0,
     lambda_input |-> 0, modified |-> 0, unopt_cf |-> 0,
     commutative |-> 0, opt_unknown |-> 0, panic |-> {}]

\* a graph, combo() not yet called on it
Init ==
    \E G \in Graphs :
       /\ irg = init_block_phis(G)
       /\ outs = <<>>
       /\ node = <<>>
       /\ partition = <<>>
       /\ env = NoEnv
       /\ trace = <<>>
       /\ changes = {}
       /\ log = <<>>
       /\ owed = {}
       /\ pc = "combo"

(***************************************************************************)
(* The loop of combo():                                                    *)
(*    do { propagate(); if (worklist != NULL) cause_splits(); }            *)
(*    while (cprop != NULL || worklist != NULL);                           *)
(* propagate() is itself a loop over env->cprop; Propagate is one of its   *)
(* iterations.                                                             *)
(***************************************************************************)
\* the Followers of X that the split has made Leaders
Promoted(e) ==
    {y \in Range(e.Follower) : e.is_follower_after[y] = 0}

\* the partitions in which the split has made a Follower a Leader
PromotedIn(e) == {e.part_after[y] : y \in Promoted(e)}

\* owed after the decision e of the log: a race adds the partitions of the
\* Leaders it has made, the call split_by(Y) of propagate takes Y away
owed_step(acc, e) ==
    IF e.at = "split" /\ e.race = 1 THEN acc \cup PromotedIn(e)
    ELSE IF e.at = "propagate_fall" THEN acc \ {e.Y}
    ELSE acc

Become(s) ==
    /\ outs' = s.o
    /\ node' = s.n
    /\ partition' = s.p
    /\ env' = s.e
    /\ trace' = s.t
    /\ changes' = s.c
    /\ log' = s.l
    /\ owed' = Fold(owed_step, owed, s.l)

\* combo() up to its loop: the Def-Use edges, the nodes' records, the
\* initial partition, the start block on cprop
Combo ==
    /\ pc \in {"combo", "applied"}
    /\ \E tie \in {0, 1}, gcse \in {0} : Become(combo_init(tie, gcse))
    /\ pc' = IF pc = "combo" THEN "analysis" ELSE "analysis again"
    /\ UNCHANGED irg

Propagate ==
    /\ pc \in {"analysis", "analysis again"}
    /\ env.cprop # <<>>
    /\ Become(propagate_partition(State))
    /\ UNCHANGED <<irg, pc>>

CauseSplits ==
    /\ pc \in {"analysis", "analysis again"}
    /\ env.cprop = <<>>
    /\ env.worklist # <<>>
    /\ Become(cause_splits(State))
    /\ UNCHANGED <<irg, pc>>

Terminate ==
    /\ pc = "analysis"
    /\ env.cprop = <<>>
    /\ env.worklist = <<>>
    /\ pc' = "done"
    /\ UNCHANGED <<irg, outs, node, partition, env, trace, changes, log, owed>>

Next == Combo \/ Propagate \/ CauseSplits \/ Terminate

Spec == Init /\ [][Next]_vars

\* s differs from the current state
Changes(s) ==
    <<s.o, s.n, s.p, s.e, s.t, s.c, s.l>>
       # <<outs, node, partition, env, trace, changes, log>>

\* ENABLED <<Next>>_vars, written out: some step of Next changes the state
NextEnabled ==
    \/ pc = "combo"
    \/ /\ pc = "analysis"
       /\ IF env.cprop # <<>> THEN Changes(propagate_partition(State))
          ELSE IF env.worklist # <<>> THEN Changes(cause_splits(State))
          ELSE TRUE

\* combo() is sequential code: its loop keeps taking the next step.  This
\* is WF_vars(Next) with its ENABLED written as a state predicate.
Fairness == []<>(~NextEnabled) \/ []<><<Next>>_vars

LiveSpec == Spec /\ Fairness

(***************************************************************************)
(* Applying the result: find_kept_memory, apply_cf on every Block,         *)
(* apply_end, apply_result on every node, add_memory_keeps.  The state of  *)
(* these steps is a record a: G is the graph as rewritten so far, s the    *)
(* state the analysis has ended in, link[x] the node_t of the ir_node x    *)
(* (0 is NULL), rep[r] the ir_node of the node_t r (node->node), kept the  *)
(* array env->kept_memory, conv the Convs that exchange_leader has made.   *)
(***************************************************************************)
apply_state(s) ==
    [G |-> irg, s |-> s,
     link |-> (<<>> \o [x \in Nodes |-> x]),
     rep |-> (<<>> \o [x \in Nodes |-> x]),
     kept |-> <<>>, conv |-> {}]

\* the type of the node_t of the ir_node x
apply_type(a, x) == a.s.n[a.link[x]].type

apply_modified(a) == [a EXCEPT !.s.e.modified = 1]

RECURSIVE apply_skip_Proj(_, _)
apply_skip_Proj(G, x) ==
    IF G[x].op = "Proj" THEN apply_skip_Proj(G, G[x].in[1]) ELSE x

\* exchange(old, nw): every use of old becomes a use of nw
exchange_in(G, old, nw) ==
    (<<>> \o [x \in DOMAIN G |->
       [G[x] EXCEPT !.blk = IF G[x].blk = old THEN nw ELSE G[x].blk,
                    !.in = (<<>> \o [i \in DOMAIN G[x].in |->
                               IF G[x].in[i] = old THEN nw ELSE G[x].in[i]])]])

exchange(a, old, nw) ==
    IF old = nw THEN [a EXCEPT !.s = Panic(@, "exchange: old != nw")]
    ELSE [a EXCEPT !.G = exchange_in(a.G, old, nw),
                   !.s.l = Append(@, [at |-> "exchange", old |-> old,
                                      nw |-> nw])]

set_irn_in(a, x, in) == [a EXCEPT !.G[x].in = in]

\* keep_alive(ka): add_End_keepalive(get_irg_end(irg), ka)
keep_alive(a, ka) == [a EXCEPT !.G[get_irg_end(a.G)].in = Append(@, ka)]

\* a node made after the analysis: it gets the next free place of the graph
\* and the node_t r
new_ir_node(a, n, r) ==
    [a EXCEPT !.G = Append(@, n), !.link = Append(@, r)]

\* the place of the node that new_ir_node makes next
new_ir_node_idx(a) == Len(a.G) + 1

\* new_r_Const(irg, tv), new_r_Bad(irg, mode), new_r_Unknown(irg, mode): a
\* node of the start block
new_r_Const(tv)     == IrNode("Const", tv.m, get_irg_start_block, <<>>, tv.v)
new_r_Bad(mode)     == IrNode("Bad", mode, get_irg_start_block, <<>>, 0)
new_r_Unknown(mode) == IrNode("Unknown", mode, get_irg_start_block, <<>>, 0)
new_r_Jmp(block)    == IrNode("Jmp", "X", block, <<>>, 0)
new_rd_Conv(block, op, mode) == IrNode("Conv", mode, block, <<op>>, 0)

\* the Blocks from which control reaches b without passing through avoid
cfg_succs(G, B) ==
    {b \in DOMAIN G : /\ G[b].op = "Block"
                      /\ \E i \in DOMAIN G[b].in : G[G[b].in[i]].blk \in B}

cfg_reach(G, from, avoid) ==
    While(LAMBDA B_l : B_l \cup (cfg_succs(G, B_l) \ {avoid}),
          LAMBDA B_l : (cfg_succs(G, B_l) \ {avoid}) \subseteq B_l,
          {from} \ {avoid})

\* is_backedge(block, i) of the loop information that combo() asks for
\* before the analysis: the edge comes from a Block that block dominates
is_backedge(block, i) ==
    LET pb == irg[irg[block].in[i + 1]].blk
    IN /\ pb \in cfg_reach(irg, get_irg_start_block, 0)
       /\ pb \notin cfg_reach(irg, get_irg_start_block, block)

\* Returns non-zero if a mode_T node has only one reachable output.
only_one_reachable_proj(a, n) ==
    LET E == IF n \in DOMAIN a.s.o THEN a.s.o[n] ELSE <<>>
    IN Cardinality({i \in DOMAIN E :
                       /\ a.G[E[i].use].mode = "X"
                       /\ apply_type(a, E[i].use) = tarval_reachable}) <= 1

can_exchange(a, pred, block) ==
    IF a.G[pred].op = "Start" THEN FALSE
    ELSE IF a.G[pred].op = "Jmp" THEN TRUE
    ELSE IF a.G[pred].op = "Raise" THEN FALSE
    ELSE IF a.G[pred].mode = "T" THEN only_one_reachable_proj(a, pred)
    ELSE FALSE

\* the Block of a dead predecessor: flag it and keep it alive if it is
\* reachable and the edge is no backedge
apply_cf_pred_block(a, block, i, pred_bl) ==
    IF a.s.n[pred_bl].flagged = 0
    THEN IF a.s.n[pred_bl].type = tarval_reachable /\ ~is_backedge(block, i)
         THEN keep_alive([a EXCEPT !.s.n[pred_bl].flagged = 3], a.rep[pred_bl])
         ELSE [a EXCEPT !.s.n[pred_bl].flagged = 3]
    ELSE a

apply_cf_dead_pred(a, block, i) ==
    LET pred == a.G[block].in[i + 1]
        pred_block == a.G[apply_skip_Proj(a.G, pred)].blk
    IN IF a.G[pred].op = "Bad" THEN a
       ELSE IF a.G[pred_block].op = "Bad" THEN a
       ELSE IF a.G[a.rep[a.link[pred_block]]].op = "Bad" THEN a
       ELSE apply_cf_pred_block(a, block, i, a.link[pred_block])

\* the analysis found the Block unreachable
apply_cf_unreachable_pred(a, block, i) ==
    LET pred == a.G[block].in[i + 1]
        pred_block == a.G[apply_skip_Proj(a.G, pred)].blk
    IN IF a.G[pred].op = "Bad" THEN a
       ELSE IF a.G[pred_block].op = "Bad" THEN a
       ELSE apply_cf_pred_block(a, block, i, a.link[pred_block])

apply_cf_unreachable_end(a, block) ==
    IF block = a.G[get_irg_end(a.G)].blk THEN set_irn_in(a, block, <<>>)
    ELSE a

apply_cf_unreachable(a, block) ==
    apply_cf_unreachable_end(
       Fold(LAMBDA a_l, i_l : apply_cf_unreachable_pred(a_l, block, i_l),
            apply_modified(a), DownTo(Len(a.G[block].in) - 1, 0)),
       block)

\* exchange(block, new_block); node->node = new_block
apply_cf_fuse(a, block, new_block) ==
    apply_modified([exchange(a, block, new_block) EXCEPT
                       !.rep[a.link[block]] = new_block])

\* only one predecessor: combine
apply_cf_single(a, block) ==
    LET pred == apply_skip_Proj(a.G, a.G[block].in[1])
    IN IF can_exchange(a, pred, block)
       THEN apply_cf_fuse(a, block, a.G[pred].blk)
       ELSE a

\* the positions (from 0) of the predecessors of block that are reachable
apply_cf_live(a, block) ==
    SelectSeq(UpTo(0, Len(a.G[block].in) - 1),
              LAMBDA i_l : apply_type(a, a.G[block].in[i_l + 1])
                              = tarval_reachable)

\* this Phi is replaced by a constant
apply_cf_Phi_Const(a, phi) ==
    apply_modified(
       exchange([new_ir_node(a, new_r_Const(apply_type(a, phi)), a.link[phi])
                   EXCEPT !.rep[a.link[phi]] = new_ir_node_idx(a)],
                phi, new_ir_node_idx(a)))

\* this Phi is replaced by a single predecessor, or is left with the
\* inputs of the reachable predecessors
apply_cf_Phi_ins(a, phi, ins) ==
    IF Len(ins) = 1
    THEN apply_modified(exchange([a EXCEPT !.rep[a.link[phi]] = ins[1]],
                                 phi, ins[1]))
    ELSE apply_modified(set_irn_in(a, phi, ins))

apply_cf_Phi(a, phi, live) ==
    IF is_tarval(apply_type(a, phi)) /\ tarval_is_constant(apply_type(a, phi))
    THEN apply_cf_Phi_Const(a, phi)
    ELSE apply_cf_Phi_ins(a, phi,
            (<<>> \o [j \in 1..Len(live) |-> a.G[phi].in[live[j] + 1]]))

\* fix block
apply_cf_block(a, block, in_X) ==
    IF /\ Len(in_X) = 1
       /\ can_exchange(a, apply_skip_Proj(a.G, in_X[1]), block)
    THEN apply_cf_fuse(a, block, a.G[apply_skip_Proj(a.G, in_X[1])].blk)
    ELSE apply_modified(set_irn_in(a, block, in_X))

\* k < n: some predecessor is dead
apply_cf_shorten(a, block, live, in_X, dead) ==
    IF dead = <<>> THEN a
    ELSE apply_cf_block(
            Fold(LAMBDA a_l, phi_l : apply_cf_Phi(a_l, phi_l, live),
                 Fold(LAMBDA a_l, i_l : apply_cf_dead_pred(a_l, block, i_l),
                      a, dead),
                 a.G[block].phis),
            block, in_X)

\* Block Post-Walker, apply the analysis results on control flow by
\* shortening Phi's and Block inputs.
apply_cf(a, block) ==
    IF apply_type(a, block) = tarval_unreachable
    THEN apply_cf_unreachable(a, block)
    ELSE IF Len(a.G[block].in) = 1 THEN apply_cf_single(a, block)
    ELSE apply_cf_shorten(a, block, apply_cf_live(a, block),
            (<<>> \o [j \in 1..Len(apply_cf_live(a, block)) |->
                        a.G[block].in[apply_cf_live(a, block)[j] + 1]]),
            SelectSeq(UpTo(0, Len(a.G[block].in) - 1),
                      LAMBDA i_l : apply_type(a, a.G[block].in[i_l + 1])
                                      # tarval_reachable))

\* irg_block_walk_graph(irg, NULL, apply_cf, env): the walk over the Blocks
\* from the end block along the control flow predecessors, from the last to
\* the first, apply_cf on a Block when the walk returns from it; then the
\* same from every Block that End keeps alive.  w.stack holds the calls
\* that have not returned: Block n, next predecessor i.
irg_block_walk_frame(a, n) == [n |-> n, i |-> Len(a.G[n].in)]

irg_block_walk_enter(w, n) ==
    [w EXCEPT !.visited = @ \cup {n},
              !.stack = Append(@, irg_block_walk_frame(w.a, n))]

irg_block_walk_pred(w, top, pred) ==
    IF w.a.G[pred].op = "Block" /\ pred \notin w.visited
    THEN irg_block_walk_enter([w EXCEPT !.stack[top].i = @ - 1], pred)
    ELSE [w EXCEPT !.stack[top].i = @ - 1]

irg_block_walk_step(w) ==
    IF w.stack[Len(w.stack)].i < 1
    THEN [w EXCEPT !.a = apply_cf(w.a, w.stack[Len(w.stack)].n),
                   !.stack = SubSeq(@, 1, Len(@) - 1)]
    ELSE irg_block_walk_pred(w, Len(w.stack),
            w.a.G[w.a.G[w.stack[Len(w.stack)].n]
                     .in[w.stack[Len(w.stack)].i]].blk)

irg_block_walk_2(w, block) ==
    IF block \in w.visited THEN w
    ELSE While(irg_block_walk_step, LAMBDA w_l : w_l.stack = <<>>,
               irg_block_walk_enter(w, block))

\* the Block of the i-th node that End keeps alive
irg_block_walk_keepalive(w, i) ==
    LET pred == w.a.G[get_irg_end(w.a.G)].in[i]
    IN IF w.a.G[pred].op = "Block" THEN irg_block_walk_2(w, pred)
       ELSE IF w.a.G[w.a.G[pred].blk].op = "Block"
       THEN irg_block_walk_2(w, w.a.G[pred].blk)
       ELSE w

irg_block_walk_keepalives(w) ==
    Fold(irg_block_walk_keepalive, w,
         UpTo(1, Len(w.a.G[get_irg_end(w.a.G)].in)))

irg_block_walk_graph(a) ==
    irg_block_walk_keepalives(
       irg_block_walk_2([a |-> a, visited |-> {}, stack |-> <<>>],
                        a.G[get_irg_end(a.G)].blk)).a

\* Check, if all users of a mode_M node are dead.
all_users_are_dead(s, irn) ==
    \A i \in DOMAIN s.o[irn] :
       \/ s.n[get_nodes_block(s.o[irn][i].use)].type = tarval_unreachable
       \/ s.n[s.o[irn][i].use].type = tarval_top

\* Walker: Find reachable mode_M nodes that have only unreachable users.
find_kept_memory(a, irn) ==
    IF /\ get_irn_mode(irn) = "M"
       /\ a.s.n[get_nodes_block(irn)].type # tarval_unreachable
       /\ a.s.n[irn].type # tarval_top
       /\ all_users_are_dead(a.s, irn)
    THEN [a EXCEPT !.kept = Append(@, irn)]
    ELSE a

\* Fix the keep-alives by deleting unreachable ones.
apply_end_keeps(a, ka) ==
    IF a.G[ka].op = "Bad" THEN FALSE
    ELSE IF a.G[ka].op = "Block"
    THEN apply_type(a, ka) # tarval_unreachable
    ELSE IF a.G[a.G[ka].blk].op = "Bad" THEN FALSE
    ELSE apply_type(a, a.G[ka].blk) # tarval_unreachable

apply_end_set(a, end, in) ==
    IF Len(in) # Len(a.G[end].in)
    THEN apply_modified(set_irn_in(a, end, in))
    ELSE a

apply_end(a) ==
    apply_end_set(a, get_irg_end(a.G),
                  SelectSeq(a.G[get_irg_end(a.G)].in,
                            LAMBDA ka_l : apply_end_keeps(a, ka_l)))

\* Exchange a node by its leader; a Conv if the modes differ.
exchange_leader(a, irn, leader) ==
    IF a.G[irn].mode # a.G[leader].mode
    THEN exchange([new_ir_node(a, new_rd_Conv(a.G[leader].blk, leader,
                                            a.G[irn].mode), 0)
                     EXCEPT !.conv = @ \cup {new_ir_node_idx(a)}],
                  irn, new_ir_node_idx(a))
    ELSE exchange(a, irn, leader)

\* a get_leader that sends only Followers to the first Leader
get_leader_follower(a, x) ==
    IF a.s.n[x].is_follower = 1
    THEN a.rep[get_first_node(a.s, a.s.n[x].part)]
    ELSE a.rep[x]

get_leader(a, x) ==
    IF a.s.p[a.s.n[x].part].n_leader > 1 \/ a.s.n[x].is_follower = 1
    THEN a.rep[get_first_node(a.s, a.s.n[x].part)]
    ELSE a.rep[x]

\* the node irn is replaced by the new node n, which gets its node_t
apply_result_new(a, irn, n) ==
    apply_modified(exchange([new_ir_node(a, n, a.link[irn])
                               EXCEPT !.rep[a.link[irn]] = new_ir_node_idx(a)],
                            irn, new_ir_node_idx(a)))

apply_result_new_leader(a, irn, n) ==
    apply_modified(exchange_leader(
       [new_ir_node(a, n, a.link[irn])
          EXCEPT !.rep[a.link[irn]] = new_ir_node_idx(a)],
       irn, new_ir_node_idx(a)))

\* a node that computes Top in a reachable Block
apply_result_top(a, irn) ==
    IF a.G[irn].mode = "M"
    THEN IF a.G[irn].op = "Proj" /\ apply_type(a, a.G[irn].in[1]) = tarval_top
         THEN apply_modified(
                 exchange([a EXCEPT !.rep[a.link[irn]] =
                                       a.G[a.G[irn].in[1]].in[1]],
                          irn, a.G[a.G[irn].in[1]].in[1]))
         ELSE a
    ELSE IF a.G[irn].mode = "T" THEN a
    ELSE IF a.G[irn].op # "Unknown"
    THEN apply_result_new(
            [a EXCEPT !.s = Expect(@, a.G[irn].mode # "X",
                                   "apply_result: mode != mode_X")],
            irn, new_r_Unknown(a.G[irn].mode))
    ELSE a

\* a control flow node: leave or Jmp
apply_result_X(a, irn, cond) ==
    IF a.G[irn].op = "Proj" /\ a.G[cond].op \in {"Cond", "Switch"}
    THEN IF only_one_reachable_proj(a, cond)
         THEN apply_result_new(a, irn,
                 new_r_Jmp(a.rep[a.link[a.G[irn].blk]]))
         ELSE IF /\ a.G[cond].op = "Switch"
                 /\ is_tarval(apply_type(a, a.G[cond].in[1]))
                 /\ tarval_is_constant(apply_type(a, a.G[cond].in[1]))
         THEN [a EXCEPT !.s.e.unopt_cf = 1]
         ELSE a
    ELSE a

\* Beware: Do not remove Phi(Unknown, ..., x, ..., Unknown)
apply_result_non_strict_phi(a, irn, leader) ==
    /\ a.s.n[a.link[irn]].is_follower = 1
    /\ a.G[irn].op = "Phi"
    /\ a.G[leader].op # "Unknown"
    /\ \E i \in DOMAIN a.G[irn].in : a.G[a.G[irn].in[i]].op = "Unknown"

apply_result_leader(a, irn, leader) ==
    IF leader # irn /\ ~apply_result_non_strict_phi(a, irn, leader)
    THEN apply_modified(exchange_leader(a, irn, leader))
    ELSE a

\* normal data node
apply_result_data(a, irn, type) ==
    IF is_tarval(type) /\ tarval_is_constant(type)
    THEN IF a.G[irn].op # "Const" /\ a.G[irn].mode # "T"
         THEN apply_result_new_leader(a, irn, new_r_Const(type))
         ELSE a
    ELSE IF ~is_tarval(type)
    THEN IF a.G[irn].op # "SymConst"
         THEN apply_result_new_leader(a, irn,
                 IrNode("SymConst", a.G[irn].mode, get_irg_start_block,
                        <<>>, type.v))
         ELSE a
    ELSE IF a.G[irn].op = "Confirm" THEN a
    ELSE apply_result_leader(a, irn, get_leader(a, a.link[irn]))

\* Post-Walker, apply the analysis results
apply_result(a, irn) ==
    IF a.G[irn].op \in {"Block", "End", "Bad"} THEN a
    ELSE IF apply_type(a, a.G[irn].blk) = tarval_unreachable
    THEN apply_result_new(a, irn,
                          new_r_Bad(a.G[a.rep[a.link[irn]]].mode))
    ELSE IF apply_type(a, irn) = tarval_top THEN apply_result_top(a, irn)
    ELSE IF a.G[irn].mode = "X"
    THEN apply_result_X(a, irn, a.G[irn].in[1])
    ELSE apply_result_data(a, irn, apply_type(a, irn))

\* irg_walk_graph(irg, NULL, apply_result, env): the walk of irg_walk_graph
\* over the graph as it is being rewritten; an input is read when the walk
\* comes to it
apply_walk_enter(w, n) ==
    [w EXCEPT !.visited = @ \cup {n},
              !.stack = Append(@, irg_walk_frame(w.a.G, n))]

apply_walk_input(w, top, pred) ==
    IF pred \in w.visited \/ pred \in w.a.conv
    THEN [w EXCEPT !.stack[top].i = @ - 1]
    ELSE apply_walk_enter([w EXCEPT !.stack[top].i = @ - 1], pred)

\* the walk has come to irn: the node as apply_result finds it
apply_walk_post(a, irn) ==
    [a EXCEPT !.s.l = Append(@, [at |-> "apply_result", irn |-> irn,
                                 in |-> a.G[irn].in, blk |-> a.G[irn].blk])]

apply_walk_step(w) ==
    IF w.stack[Len(w.stack)].i < 1
    THEN [w EXCEPT !.a = apply_result(apply_walk_post(w.a, w.stack[Len(w.stack)].n),
                                      w.stack[Len(w.stack)].n),
                   !.stack = SubSeq(@, 1, Len(@) - 1)]
    ELSE apply_walk_input(w, Len(w.stack),
            irg_walk_input(w.a.G, w.stack[Len(w.stack)].n,
                           w.stack[Len(w.stack)].i))

apply_walk_graph(a) ==
    While(apply_walk_step, LAMBDA w_l : w_l.stack = <<>>,
          apply_walk_enter([a |-> a, visited |-> {}, stack |-> <<>>],
                           get_irg_end(a.G))).a

\* Add memory keeps.
add_memory_keeps(a) ==
    Fold(LAMBDA a_l, ka_l :
            IF ka_l \in Range(a_l.G[get_irg_end(a_l.G)].in) THEN a_l
            ELSE keep_alive(a_l, ka_l),
         a, a.kept)

\* combo() after the loop of the analysis
apply(s) ==
    add_memory_keeps(
       apply_walk_graph(
          apply_end(
             irg_block_walk_graph(
                Fold(find_kept_memory, apply_state(s),
                     irg_walk_graph(irg).post)))))

\* combo() is called again on the graph that it has left.  pc tells the two
\* calls apart: "analysis" and then "applied" in the first, "analysis again"
\* and then "applied again" in the second.
Apply ==
    /\ pc \in {"analysis", "analysis again"}
    /\ env.cprop = <<>>
    /\ env.worklist = <<>>
    /\ LET r == apply(State)
       IN /\ irg' = init_block_phis(r.G)
          /\ Become(r.s)
    /\ pc' = IF pc = "analysis" THEN "applied" ELSE "applied again"

TwiceNext == Combo \/ Propagate \/ CauseSplits \/ Apply

TwiceSpec == Init /\ [][TwiceNext]_vars

(***************************************************************************)
(* The transfer functions on their own.  compute() reads the node, the     *)
(* types of its operands, of its Block and of the Block's predecessors,    *)
(* and the partitions of its operands.  TransferSpec puts one node of each *)
(* kind into a Block of its own, lets the types around it fall in the      *)
(* lattice and the partition of the right operand split off, as propagate  *)
(* and split do, and applies compute() at any moment in between.           *)
(***************************************************************************)
It ==
    [B |-> 1, L |-> 2, R |-> 3, Cmp |-> 4, Sub |-> 5,
     Sel |-> 2, Cond |-> 3, Pf |-> 4, Pt |-> 5,
     Switch |-> 3, Pd |-> 4, P1 |-> 5, P2 |-> 6,
     J1 |-> 2, J2 |-> 3, J3 |-> 4, B2 |-> 5, I1 |-> 6, I2 |-> 7, I3 |-> 8,
     Phi |-> 9]

CondT ==
    <<IrNode("Block", "BB", 0, <<>>, 0),
      IrNode("Unknown", "b", It.B, <<>>, 0),
      IrNode("Cond", "T", It.B, <<It.Sel>>, 0),
      IrNode("Proj", "X", It.B, <<It.Cond>>, pn_Cond_false),
      IrNode("Proj", "X", It.B, <<It.Cond>>, pn_Cond_true)>>

SwitchT ==
    <<IrNode("Block", "BB", 0, <<>>, 0),
      IrNode("Unknown", "Bs", It.B, <<>>, 0),
      [IrNode("Switch", "T", It.B, <<It.Sel>>, 0)
          EXCEPT !.table = SwitchTable("Bs")],
      IrNode("Proj", "X", It.B, <<It.Switch>>, pn_Switch_default),
      IrNode("Proj", "X", It.B, <<It.Switch>>, 1),
      IrNode("Proj", "X", It.B, <<It.Switch>>, 2)>>

PhiT ==
    <<IrNode("Block", "BB", 0, <<>>, 0),
      IrNode("Jmp", "X", It.B, <<>>, 0),
      IrNode("Jmp", "X", It.B, <<>>, 0),
      IrNode("Jmp", "X", It.B, <<>>, 0),
      IrNode("Block", "BB", 0, <<It.J1, It.J2, It.J3>>, 0),
      IrNode("Unknown", "Bs", It.B, <<>>, 0),
      IrNode("Unknown", "Bs", It.B, <<>>, 0),
      IrNode("Unknown", "Bs", It.B, <<>>, 0),
      IrNode("Phi", "Bs", It.B2, <<It.I1, It.I2, It.I3>>, 0)>>

CmpT(g) ==
    <<IrNode("Block", "BB", 0, <<>>, 0),
      IrNode("Unknown", g.mode, It.B, <<>>, 0),
      IrNode("Unknown", g.mode, It.B, <<>>, 0),
      IrNode("Cmp", "b", It.B, <<It.L, It.R>>, g.rel),
      IrNode("Sub", g.mode, It.B, <<It.L, It.R>>, 0)>>

CmpTParams ==
    [mode : {"Bs", "F"},
     rel  : {ir_relation_equal, ir_relation_less,
             ir_relation_less + ir_relation_equal}]

TransferGraphs == {CondT, SwitchT, PhiT} \cup {CmpT(g) : g \in CmpTParams}

\* the nodes whose type is an input of a transfer function
TransferInputs == {n \in Nodes : irg[n].op \in {"Block", "Jmp", "Unknown"}}

\* the types below Top a node of the mode can have
TypesOfMode(mode) ==
    IF mode \in {"BB", "X"} THEN {tarval_reachable}
    ELSE IF mode = "b" THEN {tarval_b_false, tarval_b_true, tarval_bottom}
    ELSE {new_tarval(mode, v) : v \in 0..MaxSel} \cup {tarval_bottom}

TransferInit ==
    \E G \in TransferGraphs :
       /\ irg = G
       /\ outs = <<>>
       /\ node = (<<>> \o [n \in 1..Len(G) |-> create_partition_node(1, 0)])
       /\ partition = <<>>
       /\ env = [NoEnv EXCEPT !.commutative = 1, !.opt_unknown = 1]
       /\ trace = <<>>
       /\ changes = {}
       /\ log = <<>>
       /\ owed = {}
       /\ pc = "transfer"

\* the type of an input falls: from Top to any type, from a constant to Bottom
TransferFall ==
    \E n \in TransferInputs :
      \E type \in TypesOfMode(get_irn_mode(n)) :
        /\ pc = "transfer"
        /\ \/ node[n].type = tarval_top
           \/ /\ node[n].type \notin {tarval_bottom, tarval_reachable}
              /\ type = tarval_bottom
        /\ node[n].type # type
        /\ node' = [node EXCEPT ![n].type = type]
        /\ changes' = {}
        /\ UNCHANGED <<irg, outs, partition, env, pc, trace, log, owed>>

\* the right operand of a binary node is split off the partition of the left
TransferSplit ==
    \E x \in Nodes :
        /\ pc = "transfer"
        /\ get_irn_arity(x) = 2
        /\ node[get_irn_n(x, 1)].part = node[get_irn_n(x, 0)].part
        /\ node' = [node EXCEPT ![get_irn_n(x, 1)].part = @ + 1]
        /\ changes' = {}
        /\ UNCHANGED <<irg, outs, partition, env, pc, trace, log, owed>>

\* compute(x) as propagate calls it: the type of x is replaced
TransferCompute ==
    \E x \in Nodes \ TransferInputs :
        /\ pc = "transfer"
        /\ node' = [node EXCEPT ![x].type = compute(State, x)]
        /\ changes' = {<<x, node[x].type, compute(State, x)>>}
        /\ UNCHANGED <<irg, outs, partition, env, pc, trace, log, owed>>

TransferNext == TransferFall \/ TransferSplit \/ TransferCompute

TransferSpec == TransferInit /\ [][TransferNext]_vars

(***************************************************************************)
(* Properties.                                                             *)
(***************************************************************************)
\* the nodes that carry a control-flow value: Blocks and nodes of mode X
is_control_flow(x) == is_Block(x) \/ get_irn_mode(x) = "X"

\* C1: every change of a node's type made by compute during propagate,
\* from x to y, has x = Top, or y = Bottom (Reachable for a control-flow
\* value), or x = y: no Reachable node becomes Unreachable again and no
\* constant becomes another constant or Top.
Monotone ==
    \A ch \in changes :
       \/ ch[2] = tarval_top
       \/ ch[3] = tarval_bottom
       \/ ch[3] = tarval_reachable /\ is_control_flow(ch[1])
       \/ ch[2] = ch[3]

\* a constant has fallen to Bottom
MonotoneWitness ==
    \E ch \in changes : tarval_is_constant(ch[2]) /\ ch[3] = tarval_bottom

\* C2: on every graph the loop of combo (propagate, then one cause_splits
\* while the worklist is not empty) reaches, after finitely many steps, a
\* state in which env.cprop and env.worklist are both empty.
Termination ==
    <>(pc # "combo" /\ env.cprop = <<>> /\ env.worklist = <<>>)

\* the loop has ended after cause_splits has split the initial partition
TerminationWitness ==
    pc = "done" /\ env.cprop = <<>> /\ env.worklist = <<>> /\ Len(partition) > 1

\* C11 (as stated): after each propagate step on a partition, after each
\* split and after each cause_splits, a partition's type_is_T_or_C flag is
\* set if and only if every node of its Leader list has type Top or a
\* constant (a tarval constant or the entity of a SymConst).
FlagAgrees(snap, X) ==
    snap.type_is_T_or_C[X] = 1
       <=> \A i \in 1..Len(snap.Leader[X]) :
              LET ty == snap.type[snap.Leader[X][i]]
              IN \/ ty = tarval_top
                 \/ tarval_is_constant(ty)
                 \/ ~is_tarval(ty)

FlagAgreesAt(points) ==
    \A k \in 1..Len(trace) :
       trace[k].at \in points
          => \A X \in DOMAIN trace[k].Leader : FlagAgrees(trace[k], X)

TypeIsTorCAfterSplit ==
    FlagAgreesAt({"propagate", "split", "split_no_followers", "cause_splits"})

\* C11 (amended): between the steps of the loop of combo a partition that
\* is not on env.cprop has its type_is_T_or_C flag set if and only if every
\* node of its Leader list has type Top or a constant, and after each
\* cause_splits this holds of every partition.
TypeIsTorC ==
    /\ pc # "combo"
          => \A X \in DOMAIN partition :
                partition[X].on_cprop = 0
                   => FlagAgrees(trace[Len(trace)], X)
    /\ FlagAgreesAt({"cause_splits"})

\* a propagate step has left a partition with the flag set and one without,
\* neither of them on env.cprop
TypeIsTorCWitness ==
    /\ trace # <<>>
    /\ trace[Len(trace)].at = "propagate"
    /\ \E X, Y \in DOMAIN partition :
          /\ partition[X].type_is_T_or_C = 1 /\ partition[X].on_cprop = 0
          /\ partition[Y].type_is_T_or_C = 0 /\ partition[Y].on_cprop = 0

\* the Def-Use edges that the IR gives: <<definition, user, position>>
DefUse ==
    UNION {{<<get_irn_n(u, i), u, i>> :
              i \in (IF is_Block(u) THEN 0 ELSE -1)..(get_irn_arity(u) - 1)} :
           u \in Nodes}

\* the Def-Use edges that outs holds
OutEdges ==
    UNION {{<<d, outs[d][k].use, outs[d][k].pos>> : k \in 1..Len(outs[d])} :
           d \in Nodes}

\* C12: from the initialisation until the loop of propagate and
\* cause_splits ends the IR is not changed: no node's opcode or operands
\* change, every node keeps its set of Def-Use edges, and env.modified
\* stays 0; only the node records and the partitions are updated.
AnalysisFrame ==
    /\ [](pc \in {"analysis", "done"}
            => /\ env.modified = 0
               /\ OutEdges = DefUse
               /\ \A d \in Nodes : Cardinality(Range(outs[d])) = Len(outs[d]))
    /\ [][irg' = irg]_vars

\* a follower has become a Leader again: move_edges_to_leader has been at
\* the Def-Use edges
AnalysisFrameWitness ==
    \E i, j \in 1..Len(trace) : \E x \in Nodes :
       i < j /\ trace[i].is_follower[x] = 1 /\ trace[j].is_follower[x] = 0

\* the Cmp nodes that compare an Unknown, and the Projs of the Conds on them
UnknownCmps ==
    {c \in Nodes : get_irn_opcode(c) = "Cmp"
                    /\ get_irn_opcode(get_irn_n(c, 0)) = "Unknown"}

UnknownCondProjs(pn) ==
    {p \in Nodes : /\ is_Proj(p) /\ get_Proj_proj(p) = pn
                    /\ is_Cond(get_Proj_pred(p))
                    /\ get_irn_n(get_Proj_pred(p), 0) \in UnknownCmps}

\* C13 (as stated): an Unknown node computes Bottom; for two Conds on
\* Cmp(x, 2) and Cmp(x, 3) with x an Unknown both Cmp nodes end
\* non-constant and in different partitions, and no Proj of either Cond is
\* Unreachable at termination.
UnknownIsBottom ==
    pc = "done" =>
       /\ \A u \in Nodes :
             get_irn_opcode(u) = "Unknown" => node[u].type = tarval_bottom
       /\ \A c1, c2 \in UnknownCmps :
             /\ ~tarval_is_constant(node[c1].type)
             /\ c1 # c2 => node[c1].part # node[c2].part
       /\ \A p \in UnknownCondProjs(pn_Cond_false)
                    \cup UnknownCondProjs(pn_Cond_true) :
             node[p].type # tarval_unreachable

\* C13 (amended): combo sets env.opt_unknown and an Unknown node computes
\* Top; for two Conds on Cmp(x, 2) and Cmp(x, 3) with x an Unknown both Cmp
\* nodes end with type Top in the same partition, the true Proj of either
\* Cond is Unreachable at termination and the false Proj is Reachable.
UnknownIsTop ==
    pc = "done" =>
       /\ env.opt_unknown = 1
       /\ \A u \in Nodes :
             get_irn_opcode(u) = "Unknown" => node[u].type = tarval_top
       /\ \A c1, c2 \in UnknownCmps :
             /\ node[c1].type = tarval_top
             /\ node[c1].part = node[c2].part
       /\ \A p \in UnknownCondProjs(pn_Cond_true) :
             node[p].type = tarval_unreachable
       /\ \A p \in UnknownCondProjs(pn_Cond_false) :
             node[p].type = tarval_reachable

\* the analysis has ended on a graph with two Conds on Cmps of an Unknown
UnknownIsTopWitness ==
    /\ pc = "done"
    /\ Cardinality(UnknownCmps) = 2
    /\ Cardinality(UnknownCondProjs(pn_Cond_true)) = 2

\* the computations of a Proj of mode X of a node `of`, in a Reachable Block,
\* the Proj not yet Reachable: <<Proj number, selector type, new type>>
ProjComputed(of) ==
    {<<get_Proj_proj(c[1]), node[get_irn_n(get_Proj_pred(c[1]), 0)].type,
       c[3]>> :
       c \in {d \in changes :
                /\ is_Proj(d[1])
                /\ get_irn_opcode(get_Proj_pred(d[1])) = of
                /\ node[get_nodes_block(d[1])].type = tarval_reachable
                /\ d[2] # tarval_reachable}}

\* a Reachable Proj of a node `of` stays Reachable when it is computed again
ProjLatch(of) ==
    \A c \in changes :
       is_Proj(c[1]) /\ get_irn_opcode(get_Proj_pred(c[1])) = of
       /\ c[2] = tarval_reachable
       => c[3] = tarval_reachable

\* what a Proj of a Cond computes for a selector that is not Top
ProjCondDecided ==
    \A c \in ProjComputed("Cond") :
       /\ c[2] = tarval_bottom => c[3] = tarval_reachable
       /\ c[2] \in {tarval_b_true, tarval_b_false} =>
             c[3] = IF (c[2] = tarval_b_true) = (c[1] = pn_Cond_true)
                    THEN tarval_reachable ELSE tarval_unreachable

\* C14 (as stated): a Proj of a Cond that is not yet Reachable computes
\* Unreachable for a Top selector, the true Proj and the false Proj alike,
\* Reachable for a Bottom selector, and for a boolean constant only the
\* matching Proj computes Reachable; a Reachable Proj stays Reachable.
ProjCondTopBothUnreachable ==
    /\ ProjCondDecided
    /\ ProjLatch("Cond")
    /\ \A c \in ProjComputed("Cond") :
          c[2] = tarval_top => c[3] = tarval_unreachable

\* C14 (amended): a Proj of a Cond that is not yet Reachable computes, for a
\* Top selector, Unreachable if it is the true Proj and Reachable if it is
\* the false Proj, Reachable for a Bottom selector, and for a boolean
\* constant only the matching Proj computes Reachable; a Reachable Proj
\* stays Reachable on every later computation.
ProjCond ==
    /\ ProjCondDecided
    /\ ProjLatch("Cond")
    /\ \A c \in ProjComputed("Cond") :
          c[2] = tarval_top =>
             c[3] = IF c[1] = pn_Cond_false THEN tarval_reachable
                    ELSE tarval_unreachable

\* the false Proj of a Cond with a Top selector has been computed
ProjCondWitness ==
    <<pn_Cond_false, tarval_top, tarval_reachable>> \in ProjComputed("Cond")

\* the computations of a Proj of a Switch in a Reachable Block:
\* <<Proj number, selector type, old type, new type>>
ProjSwitchComputed ==
    {<<get_Proj_proj(c[1]), node[get_irn_n(get_Proj_pred(c[1]), 0)].type,
       c[2], c[3]>> :
       c \in {d \in changes :
                /\ is_Proj(d[1])
                /\ is_Switch(get_Proj_pred(d[1]))
                /\ node[get_nodes_block(d[1])].type = tarval_reachable}}

\* C15 (as stated): for a selector of type Bottom or Top the default Proj of
\* a Switch computes Reachable and every case Proj that is not yet Reachable
\* computes Unreachable.
ProjSwitchDefaultOnly ==
    \A c \in ProjSwitchComputed :
       c[2] \in {tarval_bottom, tarval_top} =>
          IF c[1] = pn_Switch_default THEN c[4] = tarval_reachable
          ELSE c[3] # tarval_reachable => c[4] = tarval_unreachable

\* C15 (amended): for a selector of type Top the default Proj of a Switch
\* computes Reachable and every case Proj computes Unreachable; for a
\* selector of type Bottom every Proj computes Reachable.
ProjSwitchTopBottom ==
    \A c \in ProjSwitchComputed :
       /\ c[2] = tarval_top =>
             c[4] = IF c[1] = pn_Switch_default THEN tarval_reachable
                    ELSE tarval_unreachable
       /\ c[2] = tarval_bottom => c[4] = tarval_reachable

\* a case Proj that was not Reachable has been computed under a Bottom
\* selector, and is Reachable
ProjSwitchTopBottomWitness ==
    \E c \in ProjSwitchComputed :
       /\ c[1] # pn_Switch_default
       /\ c[2] = tarval_bottom
       /\ c[3] # tarval_reachable
       /\ c[4] = tarval_reachable

\* the Switch nodes in a Reachable Block whose selector has a constant type
ConstantSwitches ==
    {x \in Nodes : /\ is_Switch(x)
                   /\ node[get_nodes_block(x)].type = tarval_reachable
                   /\ tarval_is_constant(node[get_irn_n(x, 0)].type)}

\* the Projs of mode X of the node x
ProjsOf(x) == {p \in Nodes : is_Proj(p) /\ get_Proj_pred(p) = x
                             /\ get_irn_mode(p) = "X"}

\* the number of the Proj the table of x gives for the constant type tv
SwitchTarget(x, tv) ==
    LET inside == {e \in Range(get_Switch_table(x)) :
                      e.min.v <= tv.v /\ tv.v <= e.max.v}
    IN IF inside = {} THEN pn_Switch_default
       ELSE (CHOOSE e \in inside : TRUE).pn

\* C16 (as stated): at termination exactly one Proj of a Switch with a
\* selector of constant type is Reachable, the Proj of the table entry that
\* contains the value or the default Proj if there is none; the other Projs
\* are Unreachable.
SwitchExactlyOne ==
    pc = "done" =>
       \A x \in ConstantSwitches : \A p \in ProjsOf(x) :
          node[p].type =
             IF get_Proj_proj(p) = SwitchTarget(x, node[get_irn_n(x, 0)].type)
             THEN tarval_reachable ELSE tarval_unreachable

\* C16 (amended): at termination, for a Switch with a selector of constant
\* type, the Proj of the table entry that contains the value, or the default
\* Proj if there is none, is Reachable and every other case Proj is
\* Unreachable; the default Proj can be Reachable as well.
SwitchTargetReachable ==
    pc = "done" =>
       \A x \in ConstantSwitches : \A p \in ProjsOf(x) :
          IF get_Proj_proj(p) = SwitchTarget(x, node[get_irn_n(x, 0)].type)
          THEN node[p].type = tarval_reachable
          ELSE get_Proj_proj(p) # pn_Switch_default
               => node[p].type = tarval_unreachable

\* the analysis has ended with a constant selector inside the range of an
\* entry, and with a constant selector and a Reachable default Proj beside
\* the Reachable case Proj
SwitchTargetReachableWitness ==
    /\ pc = "done"
    /\ \E x \in ConstantSwitches : \E p, q \in ProjsOf(x) :
          /\ get_Proj_proj(p) = pn_Switch_default
          /\ get_Proj_proj(q) # pn_Switch_default
          /\ node[p].type = tarval_reachable
          /\ node[q].type = tarval_reachable

\* the types, other than Top, of the inputs of phi that arrive over a
\* Reachable control-flow predecessor
LiveInputTypes(phi) ==
    {node[get_irn_n(phi, i)].type :
       i \in {j \in 0..(get_irn_arity(phi) - 1) :
                /\ node[get_Block_cfgpred(get_nodes_block(phi), j)].type
                      = tarval_reachable
                /\ node[get_irn_n(phi, j)].type # tarval_top}}

\* the meet of a set of types
Meet(types) ==
    IF types = {} THEN tarval_top
    ELSE IF tarval_bottom \in types \/ Cardinality(types) > 1
    THEN tarval_bottom
    ELSE CHOOSE type \in types : TRUE

\* C17: a Phi in an Unreachable Block computes Top; otherwise it computes
\* the meet of the types of the inputs whose control-flow predecessor is
\* Reachable, Top inputs ignored: Top if none remains, the common constant
\* if all that remain are the same constant, Bottom if one is Bottom or two
\* differ.  The result depends on the set of these types only, not on the
\* order of the inputs.
PhiIsMeet ==
    \A c \in changes :
       is_Phi(c[1]) =>
          c[3] = IF node[get_nodes_block(c[1])].type = tarval_unreachable
                 THEN tarval_top
                 ELSE Meet(LiveInputTypes(c[1]))

\* a Phi has computed the constant of its second input: the first input,
\* another constant, arrives over an Unreachable predecessor and the third,
\* over a Reachable predecessor, is Top
PhiIsMeetWitness ==
    \E c \in changes :
       /\ is_Phi(c[1])
       /\ tarval_is_constant(c[3])
       /\ tarval_is_constant(node[It.I1].type)
       /\ node[It.I1].type # c[3]
       /\ node[It.I2].type = c[3]
       /\ node[It.I3].type = tarval_top
       /\ node[It.J3].type = tarval_reachable

\* the pairs of Phis of one Reachable Block with the same operands, one
\* operand Top or over an Unreachable predecessor, the other the constant 5
\* over a Reachable predecessor
TopAndFivePhis ==
    {pair \in {q \in Nodes \X Nodes : is_Phi(q[1]) /\ is_Phi(q[2])} :
       /\ pair[1] # pair[2]
       /\ get_nodes_block(pair[1]) = get_nodes_block(pair[2])
       /\ irg[pair[1]].in = irg[pair[2]].in
       /\ get_irn_arity(pair[1]) = 2
       /\ node[get_nodes_block(pair[1])].type = tarval_reachable
       /\ \E i \in {0, 1} :
             /\ \/ node[get_irn_n(pair[1], i)].type = tarval_top
                \/ node[get_Block_cfgpred(get_nodes_block(pair[1]), i)].type
                      = tarval_unreachable
             /\ node[get_irn_n(pair[1], 1 - i)].type = new_tarval("Bs", 5)
             /\ node[get_Block_cfgpred(get_nodes_block(pair[1]), 1 - i)].type
                   = tarval_reachable}

\* C18: at termination two Phis of the same Block with the same operands,
\* one operand Top or arriving over an Unreachable predecessor and the other
\* the constant 5, both have the type Constant 5 and are in the same
\* partition.
TwoPhisAreFive ==
    pc = "done" =>
       \A pair \in TopAndFivePhis :
          /\ node[pair[1]].type = new_tarval("Bs", 5)
          /\ node[pair[2]].type = new_tarval("Bs", 5)
          /\ node[pair[1]].part = node[pair[2]].part

\* the analysis has ended on two such Phis whose other operand is not Top
\* but arrives over an Unreachable predecessor
TwoPhisAreFiveWitness ==
    /\ pc = "done"
    /\ \E pair \in TopAndFivePhis :
          node[get_irn_n(pair[1], 0)].type # tarval_top

\* the Sub nodes of integer mode whose operands are in one partition and
\* have a type other than Top
CongruentSubs ==
    {x \in Nodes :
       /\ get_irn_opcode(x) = "Sub"
       /\ ~mode_is_float(get_irn_mode(x))
       /\ node[get_irn_n(x, 0)].part = node[get_irn_n(x, 1)].part
       /\ node[get_irn_n(x, 0)].type # tarval_top
       /\ node[get_irn_n(x, 1)].type # tarval_top}

\* C19: at termination a Sub of integer mode whose operands are in the same
\* partition and are not Top has the type Constant 0, whether the operands
\* are constants or Bottom.
CongruentSubIsZero ==
    pc = "done" =>
       \A x \in CongruentSubs : node[x].type = get_mode_null(get_irn_mode(x))

\* the computations of a Cmp without a Top operand: the relation, the types
\* of the operands, whether the operands are in one partition and of a mode
\* that is not floating point, the old and the new type of the Cmp
CmpComputed ==
    {[rel  |-> irg[c[1]].attr,
      a    |-> node[get_irn_n(c[1], 0)].type,
      b    |-> node[get_irn_n(c[1], 1)].type,
      same |-> /\ node[get_irn_n(c[1], 0)].part = node[get_irn_n(c[1], 1)].part
               /\ ~mode_is_float(get_irn_mode(get_irn_n(c[1], 0))),
      old  |-> c[2],
      new  |-> c[3]] :
       c \in {d \in changes :
                /\ get_irn_opcode(d[1]) = "Cmp"
                /\ node[get_irn_n(d[1], 0)].type # tarval_top
                /\ node[get_irn_n(d[1], 1)].type # tarval_top}}

\* the relation rel holds between the constants a and b
CmpFold(rel, a, b) ==
    IF \/ a.v = b.v /\ RelIncludes(rel, ir_relation_equal)
       \/ a.v < b.v /\ RelIncludes(rel, ir_relation_less)
       \/ a.v > b.v /\ RelIncludes(rel, ir_relation_greater)
    THEN tarval_b_true ELSE tarval_b_false

\* the boolean a Cmp of congruent operands has
CmpSame(rel) ==
    IF RelIncludes(rel, ir_relation_equal) THEN tarval_b_true
    ELSE tarval_b_false

\* C20 (as stated): without a Top operand a Cmp computes the folded boolean
\* if both operands are constants; otherwise, if the operands are in the
\* same partition and not of floating point mode, true if the relation
\* includes equality and false if not; Bottom in every other case.
CmpTransfer ==
    \A c \in CmpComputed :
       c.new = IF tarval_is_constant(c.a) /\ tarval_is_constant(c.b)
               THEN CmpFold(c.rel, c.a, c.b)
               ELSE IF c.same THEN CmpSame(c.rel)
               ELSE tarval_bottom

\* C20 (amended): as stated, except that a Cmp of operands in the same
\* partition computes Bottom when its own type is already Bottom or the
\* other boolean constant.
CmpTransferMonotone ==
    \A c \in CmpComputed :
       c.new = IF tarval_is_constant(c.a) /\ tarval_is_constant(c.b)
               THEN CmpFold(c.rel, c.a, c.b)
               ELSE IF c.same /\ c.old \in {tarval_top, CmpSame(c.rel)}
               THEN CmpSame(c.rel)
               ELSE tarval_bottom

\* a Cmp that had folded to the other boolean has been computed again with
\* operands of type Bottom in one partition, and is Bottom
CmpTransferMonotoneWitness ==
    \E c \in CmpComputed :
       /\ c.same
       /\ c.a = tarval_bottom
       /\ c.old \in {tarval_b_true, tarval_b_false} \ {CmpSame(c.rel)}
       /\ c.new = tarval_bottom

\* the operands of x and of y are in the same partitions, input by input;
\* the operands 0 and 1 of a commutative node as an unordered pair
CongruentInputs(x, y) ==
    IF is_op_commutative(get_irn_opcode(x)) /\ get_irn_arity(x) = 2
    THEN \/ /\ node[get_irn_n(x, 0)].part = node[get_irn_n(y, 0)].part
            /\ node[get_irn_n(x, 1)].part = node[get_irn_n(y, 1)].part
         \/ /\ node[get_irn_n(x, 0)].part = node[get_irn_n(y, 1)].part
            /\ node[get_irn_n(x, 1)].part = node[get_irn_n(y, 0)].part
    ELSE \A i \in 0..(get_irn_arity(x) - 1) :
            node[get_irn_n(x, i)].part = node[get_irn_n(y, i)].part

\* x and y have the same opcode, mode, arity and attributes, and congruent
\* operands
Congruent(x, y) ==
    /\ opcode_key(x) = opcode_key(y)
    /\ CongruentInputs(x, y)

MaxExec == 5

\* the values of the argument of the graph
ArgValues == (0 - 1)..MaxVal

Undefined  == [d |-> FALSE, v |-> 0]
Defined(v) == [d |-> TRUE, v |-> v]

\* the value of the operation op on two defined values
EvalBinop(op, rel, a, b) ==
    CASE op = "Add" -> Wrap(a + b)
      [] op = "Sub" -> Wrap(a - b)
      [] op = "Mul" -> Wrap(a * b)
      [] op = "Cmp" -> IF \/ a = b /\ RelIncludes(rel, ir_relation_equal)
                          \/ a < b /\ RelIncludes(rel, ir_relation_less)
                          \/ a > b /\ RelIncludes(rel, ir_relation_greater)
                       THEN 1 ELSE 0

\* the value of x for the argument arg and the values phis of the Phis
RECURSIVE Eval(_, _, _)
Eval(x, arg, phis) ==
    CASE get_irn_opcode(x) = "Const" -> Defined(irg[x].attr)
      [] is_Phi(x) -> phis[x]
      [] is_Proj(x) /\ get_irn_mode(x) = "Bs" -> Defined(arg)
      [] get_irn_opcode(x) \in {"Add", "Sub", "Mul", "Cmp"} ->
            IF Eval(get_irn_n(x, 0), arg, phis).d
               /\ Eval(get_irn_n(x, 1), arg, phis).d
            THEN Defined(EvalBinop(get_irn_opcode(x), irg[x].attr,
                                   Eval(get_irn_n(x, 0), arg, phis).v,
                                   Eval(get_irn_n(x, 1), arg, phis).v))
            ELSE Undefined
      [] OTHER -> Undefined

\* the Proj number a Switch takes for the value v
EvalSwitch(x, v) ==
    LET inside == {e \in Range(get_Switch_table(x)) :
                      e.min.v <= v /\ v <= e.max.v}
    IN IF inside = {} THEN pn_Switch_default
       ELSE (CHOOSE e \in inside : TRUE).pn

\* control leaves the Block of the node x of mode X through x; a branch on an
\* undefined value goes any way
Taken(x, arg, phis) ==
    IF ~is_Proj(x) THEN TRUE
    ELSE IF is_Cond(get_Proj_pred(x))
    THEN \/ ~Eval(get_irn_n(get_Proj_pred(x), 0), arg, phis).d
         \/ Eval(get_irn_n(get_Proj_pred(x), 0), arg, phis).v
               = (IF get_Proj_proj(x) = pn_Cond_true THEN 1 ELSE 0)
    ELSE IF is_Switch(get_Proj_pred(x))
    THEN \/ ~Eval(get_irn_n(get_Proj_pred(x), 0), arg, phis).d
         \/ EvalSwitch(get_Proj_pred(x),
                       Eval(get_irn_n(get_Proj_pred(x), 0), arg, phis).v)
               = get_Proj_proj(x)
    ELSE TRUE

\* the executions after one more Block: from the Block c.b over the
\* predecessor i of the Block b, the Phis of b taking their operand i
ExecStep(arg, C) ==
    C \cup
    {[b |-> e[2],
      phis |-> [p \in DOMAIN e[1].phis |->
                  IF get_nodes_block(p) = e[2]
                  THEN Eval(get_irn_n(p, e[3]), arg, e[1].phis)
                  ELSE e[1].phis[p]]] :
       e \in {f \in C \X {b \in Nodes : is_Block(b)} \X {0, 1, 2} :
                /\ f[3] < get_Block_n_cfgpreds(f[2])
                /\ get_nodes_block(get_Block_cfgpred(f[2], f[3])) = f[1].b
                /\ Taken(get_Block_cfgpred(f[2], f[3]), arg, f[1].phis)}}

RECURSIVE ExecReach(_, _, _)
ExecReach(arg, C, k) ==
    IF k = 0 THEN C ELSE ExecReach(arg, ExecStep(arg, C), k - 1)

\* the executions of the graph for the argument arg
Executions(arg) ==
    ExecReach(arg,
              {[b |-> get_irg_start_block,
                phis |-> [p \in {x \in Nodes : is_Phi(x)} |-> Undefined]]},
              MaxExec)

\* the pairs of nodes of one partition, neither of type Top
CongruentPairs ==
    {pair \in Nodes \X Nodes :
       /\ pair[1] < pair[2]
       /\ node[pair[1]].part = node[pair[2]].part
       /\ node[pair[1]].type # tarval_top
       /\ node[pair[2]].type # tarval_top}

\* C4: at termination two nodes of one partition, Leaders or Followers,
\* have the same value in every execution of the graph in which both have
\* a value, for every value of the argument.
CongruenceSound ==
    pc = "done" =>
       \A arg \in ArgValues : \A c \in Executions(arg) :
          \A pair \in CongruentPairs :
             Eval(pair[1], arg, c.phis).d /\ Eval(pair[2], arg, c.phis).d
             => Eval(pair[1], arg, c.phis).v = Eval(pair[2], arg, c.phis).v

\* the analysis has ended with a Follower whose value an execution defines
\* and with two Leaders of one partition of type Bottom
CongruenceSoundWitness ==
    /\ pc = "done"
    /\ \E pair \in CongruentPairs :
          /\ node[pair[1]].is_follower + node[pair[2]].is_follower = 1
          /\ node[pair[1]].type = tarval_bottom
          /\ \E c \in Executions(1) :
                Eval(pair[1], 1, c.phis).d /\ Eval(pair[2], 1, c.phis).d

\* the Blocks that have a control-flow predecessor of type Reachable in one
\* of the Blocks B
ReachableStep(B) ==
    B \cup {b \in Nodes :
              /\ is_Block(b)
              /\ \E i \in 0..(get_Block_n_cfgpreds(b) - 1) :
                    /\ node[get_Block_cfgpred(b, i)].type = tarval_reachable
                    /\ get_nodes_block(get_Block_cfgpred(b, i)) \in B}

\* the Blocks a path of such edges reaches from the Blocks B
RECURSIVE ReachableFrom(_)
ReachableFrom(B) ==
    IF ReachableStep(B) = B THEN B ELSE ReachableFrom(ReachableStep(B))

Points ==
    IF node = <<>> THEN trace ELSE Append(trace, Snapshot(State, "now"))

\* from the point a to the point b no two partitions are merged
NotMerged(a, b) ==
    /\ \A x, y \in DOMAIN a.part :
          a.part[x] # a.part[y] => b.part[x] # b.part[y]
    /\ Len(a.Leader) <= Len(b.Leader)

NotMergedIn(points) ==
    \A k \in 1..(Len(points) - 1) : NotMerged(points[k], points[k + 1])

\* C6: partitions are never merged: two nodes in different partitions at one
\* point of the analysis are in different partitions at the next, and the
\* number of partitions does not decrease.
NeverMerged == NotMergedIn(Points)

\* a split has made a new partition beside two that existed before it
SplitIn(points) ==
    \E k \in 1..(Len(points) - 1) :
       /\ Len(points[k].Leader) >= 2
       /\ Len(points[k].Leader) < Len(points[k + 1].Leader)
       /\ points[k + 1].at = "split"

NeverMergedWitness == SplitIn(Points)

\* the number of links in the lists of the partitions 1..X of the point a
RECURSIVE LinkCount(_, _)
LinkCount(a, X) ==
    IF X = 0 THEN 0
    ELSE Len(a.Leader[X]) + Len(a.Follower[X]) + LinkCount(a, X - 1)

\* at the point a every node of the graph has a node record, is linked into
\* one list of one partition, and node.part is that partition
LinkedOnce(a) ==
    /\ DOMAIN a.part = Nodes
    /\ \A X \in DOMAIN a.Leader :
          \A x \in Range(a.Leader[X]) \cup Range(a.Follower[X]) :
             a.part[x] = X
    /\ UNION {Range(a.Leader[X]) \cup Range(a.Follower[X]) :
                X \in DOMAIN a.Leader} = Nodes
    /\ LinkCount(a, Len(a.Leader)) = Len(irg)

LinkedOnceIn(points) == \A k \in 1..Len(points) : LinkedOnce(points[k])

\* C7: after the initialisation and after every split, propagate step and
\* cause_splits every node of the graph has exactly one node record, which
\* is linked into exactly one list, Leader or Follower, of exactly one
\* partition, and node.part is that partition.
OneRecordOneList == LinkedOnceIn(Points)

\* a split has moved nodes while a partition had Followers
FollowersAtSplitIn(points) ==
    \E k \in 1..Len(points) :
       /\ points[k].at = "split"
       /\ \E X \in DOMAIN points[k].Follower : points[k].Follower[X] # <<>>

OneRecordOneListWitness == FollowersAtSplitIn(Points)

\* at the point a the Leader lists hold Leaders only, the Follower lists
\* Followers only, and n_leader is the length of the Leader list
ListsAgree(a) ==
    \A X \in DOMAIN a.Leader :
       /\ \A x \in Range(a.Leader[X]) : a.is_follower[x] = 0
       /\ \A x \in Range(a.Follower[X]) : a.is_follower[x] = 1
       /\ a.n_leader[X] = Len(a.Leader[X])

ListsAgreeIn(points) ==
    \A k \in 1..Len(points) :
       points[k].at = "split" \/ (points[k].at = "now" /\ pc = "done")
       => ListsAgree(points[k])

SplitWithFollowerIn(points) ==
    \E k \in 1..Len(points) :
       /\ points[k].at = "split"
       /\ \E X \in DOMAIN points[k].Follower :
             points[k].Follower[X] # <<>> /\ points[k].n_leader[X] >= 2

LostFollowers ==
    {x \in DOMAIN node :
       /\ node[x].is_follower = 1
       /\ \/ identity(State, x) = x
          \/ node[identity(State, x)].part # node[x].part}

\* C9 (as stated): between the operations of the analysis and at
\* termination identity(n) is, for every node n with is_follower = 1, a node
\* other than n in the partition of n.
FollowerHasIdentity == LostFollowers = {}

\* C9 (amended): at termination identity(n) is, for every node n with
\* is_follower = 1, a node other than n in the partition of n; between the
\* operations of the analysis this holds for every such n that is not on
\* the cprop list of its partition.
FollowerHasIdentityOffCprop ==
    \A x \in LostFollowers : node[x].on_cprop = 1 /\ pc # "done"

\* the analysis has ended with a Phi that is a Follower
FollowerHasIdentityOffCpropWitness ==
    /\ pc = "done"
    /\ \E x \in Nodes : node[x].is_follower = 1 /\ is_Phi(x)

\* the def-use edges of p are segregated: the first n_followers edges lead
\* to Followers, no later edge leads to a Follower over a data input, and
\* the later edges are sorted by input position
Segregated(p) ==
    /\ node[p].n_followers <= Len(outs[p])
    /\ \A j \in 1..Len(outs[p]) :
          IF j <= node[p].n_followers
          THEN node[outs[p][j].use].is_follower = 1
          ELSE /\ ~(node[outs[p][j].use].is_follower = 1
                    /\ outs[p][j].pos >= 0)
               /\ j < Len(outs[p]) => outs[p][j].pos <= outs[p][j + 1].pos

\* C10: between the operations of the analysis, for every node p the first
\* p.n_followers def-use edges of p have a user with is_follower = 1, no
\* edge at an index >= n_followers has a Follower as user over a data input,
\* and the edges at the indices >= n_followers are sorted by input position.
DefUseSegregated == \A p \in DOMAIN node : Segregated(p)

\* between two operations a node has a Follower edge and, behind it, two
\* Leader edges
DefUseSegregatedWitness ==
    /\ pc = "analysis"
    /\ \E p \in DOMAIN node :
          /\ node[p].n_followers >= 1
          /\ Len(outs[p]) >= node[p].n_followers + 2

(***************************************************************************)
(* The order of one drain of propagate.                                    *)
(***************************************************************************)
\* the nodes the last drain took, in the order in which it took them
DrainOf(l) == SelectSeq(l, LAMBDA e_l : e_l.at = "propagate_drain")

\* the Conds, the Switches and their Projs
is_cprop_X_node(x) == is_Cond(skip_Proj(x)) \/ is_Switch(skip_Proj(x))

DataFirstIn(dr) ==
    \A k \in 1..Len(dr) :
       /\ dr[k].from = "cprop_X" <=> is_cprop_X_node(dr[k].x)
       /\ dr[k].from = "cprop_X" =>
             \A j \in 1..k : \A y \in Range(dr[j].cprop) :
                \E i \in j..(k - 1) : dr[i].x = y /\ dr[i].from = "cprop"

\* C21: in every drain of propagate a node comes from X.cprop_X exactly if
\* it is a Cond, a Switch or a Proj of one, and when it is taken every node
\* that was on X.cprop at any earlier point of the drain, or is on it now,
\* has been taken from X.cprop since: X.cprop is empty.
DataFirst == DataFirstIn(DrainOf(log))

\* a Proj of a Cond or Switch is taken after a data node that was queued
\* during the drain, while the Proj was waiting on X.cprop_X already
DataFirstWitnessIn(dr) ==
    \E k \in 1..Len(dr) : \E i \in 1..(k - 1) :
       /\ dr[k].from = "cprop_X" /\ is_Proj(dr[k].x)
       /\ dr[i].from = "cprop"
       /\ dr[i].x \notin Range(dr[1].cprop)
       /\ \A j \in i..k : dr[k].x \in Range(dr[j].cprop_X)

DataFirstWitness == DataFirstWitnessIn(DrainOf(log))

(***************************************************************************)
(* The worklist after a split without followers.                           *)
(***************************************************************************)
UpdatesOf(l) == SelectSeq(l, LAMBDA e_l : e_l.at = "update_worklist")

SmallerAddedIn(up) ==
    \A k \in 1..Len(up) :
       IF up[k].added = up[k].Z_prime
       THEN up[k].n_leader_prime <= up[k].n_leader
       ELSE up[k].n_leader <= up[k].n_leader_prime

\* C22 as stated: split_no_followers always puts the partition with the
\* smaller number of leaders on the worklist
SmallerAdded == SmallerAddedIn(UpdatesOf(log))

SmallerOrOtherAddedIn(up) ==
    \A k \in 1..Len(up) :
       /\ up[k].added \in {up[k].Z, up[k].Z_prime}
       /\ IF up[k].on_worklist = 1 THEN up[k].added = up[k].Z_prime
          ELSE IF up[k].added = up[k].Z_prime
          THEN up[k].n_leader_prime < up[k].n_leader
          ELSE up[k].n_leader <= up[k].n_leader_prime

\* C22: split_no_followers puts Z' on the worklist if Z is on it already;
\* if Z is not, it puts the one with the smaller number of leaders on it,
\* Z if the two numbers are equal
SmallerOrOtherAdded == SmallerOrOtherAddedIn(UpdatesOf(log))

SmallerOrOtherAddedWitnessIn(up) ==
    \E k \in 1..Len(up) :
       up[k].on_worklist = 0 /\ up[k].added = up[k].Z
          /\ up[k].n_leader < up[k].n_leader_prime

\* an operation splits a partition that is not on the worklist, and the part
\* that keeps its name is the smaller one and is put on the worklist
SmallerOrOtherAddedWitness == SmallerOrOtherAddedWitnessIn(UpdatesOf(log))

(***************************************************************************)
(* The scratch flags between the operations.                               *)
(***************************************************************************)
\* the operation that has returned last, "" before the first one
Returned == IF trace = <<>> THEN "" ELSE trace[Len(trace)].at

\* C23: when combo() is called a second time, on the graph that its first
\* call has left, it rewrites nothing: env.modified is 0 when the second
\* call returns
ApplyIdempotent == pc = "applied again" => env.modified = 0


ScratchClearIn(N, P) ==
    /\ \A x \in DOMAIN N :
          N[x].on_touched = 0 /\ N[x].on_fallen = 0 /\ N[x].flagged = 0
    /\ \A X \in DOMAIN P :
          P[X].on_touched = 0 /\ P[X].n_touched = 0 /\ P[X].touched = <<>>

CpropClearIn(N, P) ==
    /\ \A x \in DOMAIN N : N[x].on_cprop = 0
    /\ \A X \in DOMAIN P : P[X].cprop = <<>> /\ P[X].cprop_X = <<>>

\* C24: when propagate has returned (env->cprop is empty), when cause_splits
\* has returned and at the end of the analysis no node has on_touched,
\* on_fallen or flagged set and no partition has on_touched set, n_touched
\* above 0 or a node on its touched list; at the end of the analysis no node
\* has on_cprop set either and the cprop and cprop_X lists of all partitions
\* are empty
ScratchClear ==
    /\ (pc = "analysis" /\ Returned = "propagate" /\ env.cprop = <<>>)
          => ScratchClearIn(node, partition)
    /\ (pc = "analysis" /\ Returned = "cause_splits")
          => ScratchClearIn(node, partition)
    /\ pc = "done"
          => ScratchClearIn(node, partition) /\ CpropClearIn(node, partition)

\* cause_splits has returned after it emptied a touched list and split the
\* partition by it
ScratchClearWitness ==
    /\ pc = "analysis" /\ Returned = "cause_splits"
    /\ \E k \in 1..Len(log) : log[k].at = "update_worklist"

(***************************************************************************)
(* Commutative nodes.                                                      *)
(***************************************************************************)
\* x and y are two nodes op(a, b) and op(b, a) of one Block, opcode and mode,
\* op commutative
Swapped(x, y) ==
    /\ x # y
    /\ is_op_commutative(get_irn_opcode(x))
    /\ get_irn_opcode(x) = get_irn_opcode(y)
    /\ get_irn_mode(x) = get_irn_mode(y)
    /\ irg[x].blk = irg[y].blk
    /\ get_irn_arity(x) = 2 /\ get_irn_arity(y) = 2
    /\ get_irn_n(x, 0) = get_irn_n(y, 1)
    /\ get_irn_n(x, 1) = get_irn_n(y, 0)

\* C25: at the end of the analysis two nodes op(a, b) and op(b, a) of one
\* Block, of one commutative opcode and mode and of type Bottom are in the
\* same partition
CommutativeCongruent ==
    pc = "done" =>
       \A x, y \in Nodes :
          (Swapped(x, y) /\ node[x].type = tarval_bottom
              /\ node[y].type = tarval_bottom)
             => node[x].part = node[y].part

\* the analysis has ended on a graph with a + k and k + a, a # k, both of type
\* Bottom, and has put other nodes of their opcode and type into another
\* partition
CommutativeCongruentWitness ==
    /\ pc = "done"
    /\ \E x, y \in Nodes :
          /\ Swapped(x, y) /\ get_irn_n(x, 0) # get_irn_n(x, 1)
          /\ node[x].type = tarval_bottom /\ node[y].type = tarval_bottom
    /\ \E X, Y \in DOMAIN partition :
          /\ X # Y
          /\ partition[X].Leader # <<>> /\ partition[Y].Leader # <<>>
          /\ is_op_commutative(get_irn_opcode(partition[X].Leader[1]))
          /\ get_irn_opcode(partition[X].Leader[1])
                = get_irn_opcode(partition[Y].Leader[1])
          /\ node[partition[X].Leader[1]].type = tarval_bottom
          /\ node[partition[Y].Leader[1]].type = tarval_bottom

(***************************************************************************)
(* The users of a node whose type has changed.                             *)
(***************************************************************************)
\* the users of x on the Def-Use edges O
UsersIn(O, x) == {O[x][i].use : i \in 1..Len(O[x])}

\* the users of x, the Projs of its users of mode T, the Phis of the Blocks
\* among its users
ToRecompute(O, x) ==
    UsersIn(O, x)
       \cup UNION {UsersIn(O, y) : y \in {u \in UsersIn(O, x) : get_irn_mode(u) = "T"}}
       \cup UNION {Range(get_Block_phis(y)) : y \in {u \in UsersIn(O, x) : is_Block(u)}}

\* the partition propagate drains at the entry k of the log
DrainedAt(l, k) ==
    l[CHOOSE j \in 1..k : /\ l[j].at = "propagate_drain"
                          /\ \A i \in (j + 1)..k : l[i].at # "propagate_drain"].X

\* at the entry e, y is queued on a list of a partition that is on env->cprop
\* or is X
Queued(e, y, X) ==
    /\ e.on_cprop[y] = 1
    /\ \E Y \in DOMAIN e.cprop :
          /\ y \in Range(e.cprop[Y]) \cup Range(e.cprop_X[Y])
          /\ Y \in Range(e.env_cprop) \cup {X}

UsersQueuedIn(l, O) ==
    \A k \in 1..Len(l) :
       l[k].at = "propagate_compute" =>
          \A y \in ToRecompute(O, l[k].x) : Queued(l[k], y, DrainedAt(l, k))

\* C26: when compute has changed the type of x in propagate, right after the
\* loop over the users of x every user of x, every Proj of a user of mode T
\* and every Phi of a Block that is a user has on_cprop set and is on the
\* cprop or the cprop_X list of a partition that is on env->cprop or is the
\* partition propagate is draining
UsersQueued == UsersQueuedIn(log, outs)

UsersQueuedWitnessIn(l, O) ==
    \E k \in 1..Len(l) :
       /\ l[k].at = "propagate_compute"
       /\ \E y \in UsersIn(O, l[k].x) :
             /\ l[k].part[y] # DrainedAt(l, k)
             /\ y \in Range(l[k].cprop[l[k].part[y]])

\* the type of a node has changed that has a user in another partition than
\* the one that is drained, and the user is queued on the list of its partition
UsersQueuedWitness == UsersQueuedWitnessIn(log, outs)

(***************************************************************************)
(* The types of the Leaders of a partition.                                *)
(***************************************************************************)
\* all Leaders of a partition of P have the type of its first node
OneTypeIn(N, P) ==
    \A X \in DOMAIN P :
       \A i \in 1..Len(P[X].Leader) :
          N[P[X].Leader[i]].type = N[P[X].Leader[1]].type

\* C27: when propagate has returned (env->cprop is empty) all Leaders of a
\* partition have the same lattice element
OneType ==
    (pc \in {"analysis", "done"} /\ env.cprop = <<>>) => OneTypeIn(node, partition)

\* propagate has returned, and two partitions with Leaders of different types
\* have two Leaders or more
OneTypeWitness ==
    /\ pc = "analysis" /\ env.cprop = <<>> /\ Returned = "propagate"
    /\ \E X, Y \in DOMAIN partition :
          /\ partition[X].n_leader >= 2 /\ partition[Y].n_leader >= 2
          /\ node[partition[X].Leader[1]].type
                # node[partition[Y].Leader[1]].type

(***************************************************************************)
(* The touched partitions of cause_splits.                                 *)
(***************************************************************************)
TouchedOf(l) ==
    SelectSeq(l, LAMBDA e_l : e_l.at \in {"cause_splits_idx",
                                          "cause_splits_commutative"})

\* the touched list of Z holds Leaders of Z, each once, and n_touched counts it
TouchedListOk(e) ==
    /\ e.touched # <<>>
    /\ \A i \in 1..Len(e.touched) :
          /\ e.part[e.touched[i]] = e.Z
          /\ e.is_follower[e.touched[i]] = 0
          /\ e.touched[i] \in Range(e.Leader)
    /\ Cardinality(Range(e.touched)) = Len(e.touched)
    /\ e.n_touched = Len(e.touched)
    /\ e.n_touched <= e.n_leader

\* the touched fields of Z and of its nodes are reset
TouchedReset(e) ==
    /\ e.partitions[e.Z].touched = <<>>
    /\ e.partitions[e.Z].n_touched = 0
    /\ e.partitions[e.Z].on_touched = 0
    /\ \A i \in 1..Len(e.touched) : e.on_touched[e.touched[i]] = 0

\* Z is split in two: the touched Leaders are in one of Z and the new
\* partition, the other Leaders of Z in the other
SplitInTouchedAndRest(e) ==
    /\ Len(e.partitions) = e.n_partitions + 1
    /\ \E T, R \in {e.Z, e.n_partitions + 1} :
          /\ T # R
          /\ \A y \in Range(e.Leader) :
                e.part_after[y] = IF y \in Range(e.touched) THEN T ELSE R

\* Z is as it was
LeftWhole(e) ==
    /\ Len(e.partitions) = e.n_partitions
    /\ e.partitions[e.Z].Leader = e.Leader
    /\ \A y \in Range(e.Leader) : e.part_after[y] = e.Z

TouchedSplitIn(T) ==
    \A k \in 1..Len(T) :
       /\ TouchedListOk(T[k])
       /\ TouchedReset(T[k])
       /\ T[k].at = "cause_splits_idx" =>
             IF 0 < T[k].n_touched /\ T[k].n_touched < T[k].n_leader
             THEN SplitInTouchedAndRest(T[k])
             ELSE LeftWhole(T[k])

\* C28: for every partition Z that cause_splits finds touched for an input
\* index, the touched list holds Leaders of Z only, n_touched is its length and
\* at most n_leader; Z is split into the touched Leaders and the others if
\* 0 < n_touched < n_leader and is left as it is if not; after that the
\* touched list of Z is empty, n_touched and on_touched are 0
TouchedSplit == TouchedSplitIn(TouchedOf(log))

TouchedSplitWitnessIn(T) ==
    \E k \in 1..Len(T) :
       /\ T[k].at = "cause_splits_idx"
       /\ 0 < T[k].n_touched /\ T[k].n_touched < T[k].n_leader

\* cause_splits finds a partition of which some Leaders are touched for an
\* input index, and not all
TouchedSplitWitness == TouchedSplitWitnessIn(TouchedOf(log))

(***************************************************************************)
(* What split() returns.                                                   *)
(***************************************************************************)
SplitsOf(l) == SelectSeq(l, LAMBDA e_l : e_l.at = "split")

\* the nodes of X before the split
NodesOf(e) == Range(e.Leader) \cup Range(e.Follower)

\* the number of lists of the partitions after the split that hold y
ListsWith(e, y) ==
    Cardinality({Y \in DOMAIN e.partitions : y \in Range(e.partitions[Y].Leader)})
       + Cardinality({Y \in DOMAIN e.partitions :
                         y \in Range(e.partitions[Y].Follower)})

\* every node of X is in one of the two partitions and on one list, no other
\* node has moved
SplitConserves(e) ==
    /\ Len(e.partitions) = e.n_partitions + 1
    /\ {e.pX, e.R} = {e.X, e.n_partitions + 1}
    /\ \A y \in NodesOf(e) : e.part_after[y] \in {e.pX, e.R}
    /\ \A y \in DOMAIN e.part :
          /\ ListsWith(e, y) = 1
          /\ y \in Range(e.partitions[e.part_after[y]].Leader)
                      \cup Range(e.partitions[e.part_after[y]].Follower)
          /\ y \notin NodesOf(e) => e.part_after[y] = e.part[y]

\* the returned partition holds gg, *pX the other Leaders of X
SplitReturnsGG(e) ==
    /\ \A y \in Range(e.gg) : e.part_after[y] = e.R
    /\ \A y \in Range(e.Leader) \ Range(e.gg) : e.part_after[y] = e.pX

\* the Leaders are counted
SplitCounts(e) ==
    e.partitions[e.pX].n_leader + e.partitions[e.R].n_leader
       = e.n_leader + Cardinality(Promoted(e))

SplitResultIn(S) ==
    \A k \in 1..Len(S) :
       SplitConserves(S[k]) /\ SplitReturnsGG(S[k]) /\ SplitCounts(S[k])

\* C29: after split(&X, gg), by the fast path or by the race, every node that
\* was in X is in one of two partitions, X and a new one, and no other node
\* has moved; the returned partition holds every node of gg and no other
\* Leader that X had, *pX is the partition with the other Leaders that X had;
\* the n_leader of the two add up to the n_leader X had plus the number of
\* Followers that the split has made Leaders
SplitResult == SplitResultIn(SplitsOf(log))

SplitResultWitnessIn(S) ==
    \E k \in 1..Len(S) :
       /\ S[k].race = 1
       /\ S[k].pX # S[k].X
       /\ \E y \in Range(S[k].Follower) : S[k].part_after[y] = S[k].R

\* a race that the side of the other Leaders wins, so that *pX changes, and
\* that leaves a Follower with gg
SplitResultWitness == SplitResultWitnessIn(SplitsOf(log))

(***************************************************************************)
(* The race.                                                               *)
(***************************************************************************)
\* the races of the log, each with the split it is part of
RacesOf(l) ==
    LET idx == SelectSeq((<<>> \o [i \in 1..Len(l) |-> i]),
                         LAMBDA i_l : l[i_l].at = "race")
    IN (<<>> \o [k \in 1..Len(idx) |->
           [race |-> l[idx[k]],
            split |-> l[CHOOSE j \in (idx[k] + 1)..Len(l) :
                          /\ l[j].at = "split"
                          /\ \A i \in (idx[k] + 1)..(j - 1) : l[i].at # "split"]]])

\* the nodes on the lists of the side sd (1 or 2) when the race is over
OnSide(r, sd) ==
    Range(r.senv[sd].initial) \cup Range(r.senv[sd].unwalked)
       \cup Range(r.senv[sd].walked)

\* the side that wins has emptied initial and unwalked, the other has not
WinnerDone(r) ==
    /\ r.senv[r.winner + 1].initial = <<>>
    /\ r.senv[r.winner + 1].unwalked = <<>>
    /\ r.senv[2 - r.winner].initial # <<>>
          \/ r.senv[2 - r.winner].unwalked # <<>>

\* X' is the walked list of the winner
WalkedIsXPrime(r, sp) ==
    Range(sp.partitions[sp.n_partitions + 1].Leader)
       \cup Range(sp.partitions[sp.n_partitions + 1].Follower)
      = Range(r.senv[r.winner + 1].walked)

\* a Follower one side has reached is on the lists of that side only and is
\* a Follower when the race and clear_flags are over
OneSideKeeps(r, sp) ==
    \A y \in Range(sp.Follower) : \A sd \in {1, 2} :
       r.flagged[y] = sd =>
          /\ y \in OnSide(r, sd) /\ y \notin OnSide(r, 3 - sd)
          /\ r.is_follower[y] = 1
          /\ r.is_follower_cleared[y] = 1

\* a Follower both sides have reached is a Follower as long as the race
\* runs and a Leader after clear_flags
BothSidesPromote(r, sp) ==
    /\ \A y \in DOMAIN r.is_follower : r.is_follower[y] = sp.is_follower[y]
    /\ \A y \in Range(sp.Follower) :
          r.flagged[y] = 3 =>
             r.is_follower_cleared[y] = 0 /\ sp.is_follower_after[y] = 0
    /\ \A y \in DOMAIN r.flagged_cleared : r.flagged_cleared[y] = 0

RaceOutcomeIn(R) ==
    \A k \in 1..Len(R) :
       /\ WinnerDone(R[k].race)
       /\ WalkedIsXPrime(R[k].race, R[k].split)
       /\ OneSideKeeps(R[k].race, R[k].split)
       /\ BothSidesPromote(R[k].race, R[k].split)

RaceOutcomeWitnessIn(R) ==
    \E k \in 1..Len(R) :
       /\ \E y \in Range(R[k].split.Follower) : R[k].race.flagged[y] = 3
       /\ \E y \in Range(R[k].split.Follower) : R[k].race.flagged[y] \in {1, 2}

SizeAfter(e, Y) == Len(e.partitions[Y].Leader) + Len(e.partitions[Y].Follower)

\* X' has no more nodes than X keeps
XPrimeSmaller(sp) == SizeAfter(sp, sp.n_partitions + 1) <= SizeAfter(sp, sp.X)

\* the split has put X' on the worklist and no other partition
XPrimeQueued(sp) == sp.worklist_after = <<sp.n_partitions + 1>> \o sp.worklist

XPrimeIn(R) ==
    \A k \in 1..Len(R) :
       /\ WalkedIsXPrime(R[k].race, R[k].split)
       /\ XPrimeSmaller(R[k].split)
       /\ XPrimeQueued(R[k].split)

\* C31: after a split by the race the new partition X', made of the walked
\* list of the winner, Leaders and Followers, has no more nodes than X keeps,
\* and X' is the partition that the split has put on the worklist
XPrime == XPrimeIn(RacesOf(log))

XPrimeWitnessIn(R) ==
    \E k \in 1..Len(R) :
       /\ R[k].split.partitions[R[k].split.n_partitions + 1].Follower # <<>>
       /\ SizeAfter(R[k].split, R[k].split.n_partitions + 1)
             = SizeAfter(R[k].split, R[k].split.X)

\* a race that leaves X' with a Follower and with as many nodes as X
XPrimeWitness == XPrimeWitnessIn(RacesOf(log))

(***************************************************************************)
(* New Leaders are handed to split_by.                                     *)
(***************************************************************************)
PromotedOnCpropIn(S) ==
    \A k \in 1..Len(S) :
       S[k].race = 1 =>
          \A Y \in PromotedIn(S[k]) :
             /\ Y \in Range(S[k].cprop_after)
             /\ S[k].on_cprop_after[Y] = 1

\* a partition in which a race has made a Follower a Leader waits on
\* env->cprop until a propagate step has run split_by on it
SplitByOwed ==
    \A Y \in owed : Y \in Range(env.cprop) /\ partition[Y].on_cprop = 1

\* C32: after a split by the race every partition, X or X', in which the
\* split has made a Follower a Leader is on env.cprop with on_cprop = 1, and
\* it stays there until a propagate step takes it and runs split_by on it
PromotedOnCprop == PromotedOnCpropIn(SplitsOf(log)) /\ SplitByOwed

PromotedWitnessIn(S) ==
    \E k \in 1..Len(S) :
       /\ S[k].race = 1
       /\ S[k].X \in PromotedIn(S[k])
       /\ S[k].X \notin Range(S[k].cprop)

\* a race has made a Follower a Leader in X, which was not on env.cprop, and
\* X waits for split_by
PromotedWitness == PromotedWitnessIn(SplitsOf(log)) /\ owed # {}

(***************************************************************************)
(* A Phi that becomes a Leader in propagate.                               *)
(***************************************************************************)
LedOf(l) == SelectSeq(l, LAMBDA e_l : e_l.at = "propagate_leader")

\* the number of times partition X is linked into the worklist w
Links(w, X) == Cardinality({i \in 1..Len(w) : w[i] = X})

PhiRequeuedIn(L) ==
    \A k \in 1..Len(L) :
       /\ L[k].is_follower = 0
       /\ is_Phi(L[k].x) =>
             /\ L[k].on_worklist_after = 1
             /\ Links(L[k].worklist_after, L[k].part) = 1

\* C33: when propagate takes a Phi that is a Follower with identity(x) = x
\* from a cprop list and makes it a Leader, the partition of the Phi is on
\* the worklist right after, whether it was on the worklist before or not
PhiRequeued == PhiRequeuedIn(LedOf(log))

PhiRequeuedWitnessIn(L) ==
    \E k \in 1..Len(L) :
       /\ is_Phi(L[k].x)
       /\ L[k].on_worklist = 1
       /\ L[k].worklist_after = L[k].worklist

\* a propagate step that makes a Phi a Leader whose partition was on the
\* worklist before and is left where it was
PhiRequeuedWitness == PhiRequeuedWitnessIn(LedOf(log))

(***************************************************************************)
(* The congruence classes collapse.                                        *)
(***************************************************************************)
Applied == pc \in {"applied", "applied again"}

ExchangesOf(l) == SelectSeq(l, LAMBDA e_l : e_l.at = "exchange")

\* the nodes that exchange has put in the place of x
ReplacedBy(E, x) == {E[k].nw : k \in {j \in 1..Len(E) : E[j].old = x}}

\* the first node of the Leader list of the partition of x
FirstLeader(x) == Head(partition[node[x].part].Leader)

CollapseIn(E) ==
    \A x \in DOMAIN node :
       type_is_neither_top_nor_const(node[x].type) =>
          IF x = FirstLeader(x) THEN ReplacedBy(E, x) = {}
          ELSE ReplacedBy(E, x) = {FirstLeader(x)}

\* C34 (as stated): when the result is applied, every node whose final type
\* is neither Top nor a constant and that is not the first node of the
\* Leader list of its partition is replaced by that first Leader, and the
\* first Leader is not replaced
Collapse == Applied => CollapseIn(ExchangesOf(log))

\* the visits of apply_result
VisitsOf(l) == SelectSeq(l, LAMBDA e_l : e_l.at = "apply_result")

\* apply_result has come to x, a node of a reachable Block that is no Block,
\* End, Bad or Confirm and no control flow node
DataVisit(V, x) ==
    /\ \E k \in 1..Len(V) : V[k].irn = x
    /\ irg[x].op \notin {"Block", "End", "Bad", "Confirm"}
    /\ irg[x].mode # "X"
    /\ \A k \in 1..Len(V) :
          V[k].irn = x => node[V[k].blk].type # tarval_unreachable

\* a Follower Phi with an Unknown among its inputs when apply_result comes
\* to it, the first Leader being no Unknown
NonStrictPhi(V, x) ==
    /\ irg[x].op = "Phi"
    /\ node[x].is_follower = 1
    /\ irg[FirstLeader(x)].op # "Unknown"
    /\ \E k \in 1..Len(V) :
          V[k].irn = x /\ \E i \in DOMAIN V[k].in : irg[V[k].in[i]].op = "Unknown"

\* the first Leader, or a Conv of it to the mode of x
LeaderOrConv(x, y) ==
    \/ y = FirstLeader(x)
    \/ /\ irg[y].op = "Conv"
       /\ irg[y].in = <<FirstLeader(x)>>
       /\ irg[y].mode = irg[x].mode
       /\ irg[x].mode # irg[FirstLeader(x)].mode

CollapseDataIn(E, V) ==
    \A x \in DOMAIN node :
       DataVisit(V, x) /\ type_is_neither_top_nor_const(node[x].type) =>
          IF x = FirstLeader(x) \/ NonStrictPhi(V, x)
          THEN ReplacedBy(E, x) = {}
          ELSE \E y \in DOMAIN irg : ReplacedBy(E, x) = {y} /\ LeaderOrConv(x, y)

\* C34: when the result is applied, every node that apply_result comes to in
\* a reachable Block, that is no Block, End, Bad, Confirm or control flow
\* node, whose final type is neither Top nor a constant and that is not the
\* first node of the Leader list of its partition is replaced by that first
\* Leader (by a Conv of it if the modes differ), except a Follower Phi with
\* an Unknown input whose Leader is no Unknown; the first Leader is not
\* replaced
CollapseData == Applied => CollapseDataIn(ExchangesOf(log), VisitsOf(log))

\* x is a congruent node of the kind f (is_follower) that was collapsed
\* into the first Leader of its partition
Collapsed(E, V, f) ==
    \E x \in DOMAIN node :
       /\ DataVisit(V, x)
       /\ type_is_neither_top_nor_const(node[x].type)
       /\ node[x].is_follower = f
       /\ x # FirstLeader(x)
       /\ ReplacedBy(E, x) = {FirstLeader(x)}

\* a Follower and a further Leader have both been replaced by first Leaders,
\* and a first Leader that apply_result came to has been left alone
CollapseWitness ==
    /\ Applied
    /\ Collapsed(ExchangesOf(log), VisitsOf(log), 1)
    /\ Collapsed(ExchangesOf(log), VisitsOf(log), 0)
    /\ \E x \in DOMAIN node :
          /\ DataVisit(VisitsOf(log), x)
          /\ type_is_neither_top_nor_const(node[x].type)
          /\ x = FirstLeader(x)
          /\ partition[node[x].part].n_leader > 1
          /\ ReplacedBy(ExchangesOf(log), x) = {}

\* the assertions of split and split_no_followers on their list
SplitAssertions ==
    {"split: gg", "split_no_followers: g", "split_no_followers: n < Z->n_leader"}

\* the list gg of the split e is a list of Leaders of e.X
ListOfLeaders(e) ==
    /\ e.gg # <<>>
    /\ \A i, j \in 1..Len(e.gg) : e.gg[i] = e.gg[j] => i = j
    /\ \A i \in 1..Len(e.gg) :
          /\ e.part[e.gg[i]] = e.X
          /\ e.is_follower[e.gg[i]] = 0
          /\ e.gg[i] \in Range(e.Leader)

\* and some Leader of e.X is not on it
ProperList(e) ==
    /\ Len(e.gg) < e.n_leader
    /\ Range(e.Leader) \ Range(e.gg) # {}

SplitListsIn(S) == \A k \in 1..Len(S) : ListOfLeaders(S[k]) /\ ProperList(S[k])

\* C35: every list handed to split or split_no_followers is non-empty,
\* consists only of nodes that belong to the partition being split and are
\* Leaders of it, and leaves out at least one Leader of that partition; the
\* assertions on the list never fail
SplitLists ==
    /\ SplitListsIn(SplitsOf(log))
    /\ env.panic \cap SplitAssertions = {}

\* split k of the entries l is the split of propagate by its fallen list
FallenSplit(l, k) ==
    /\ l[k].at = "split"
    /\ k < Len(l)
    /\ l[k + 1].at = "propagate_fall"

\* propagate has handed a fallen list to the race split
SplitListsWitness ==
    \E k \in 1..Len(log) :
       /\ FallenSplit(log, k)
       /\ log[k].race = 1
       /\ ListOfLeaders(log[k])
       /\ ProperList(log[k])

DrainedOwnIn(D) == \A k \in 1..Len(D) : D[k].part = D[k].X

\* C36: every node that propagate takes from the cprop lists of the
\* partition X it is draining belongs to X at that moment
DrainedOwn == DrainedOwnIn(DrainOf(log))

\* propagate drains a partition that a split has made and takes from its
\* lists a node that an earlier split has moved into it
DrainedOwnWitness ==
    \E k \in 1..Len(log) :
       /\ log[k].at = "propagate_drain"
       /\ log[k].X > 1
       /\ log[k].part = log[k].X
       /\ Len(log[k].cprop) + Len(log[k].cprop_X) > 1

\* the loops of propagate over the Leaders of Y
FollowedOf(l) == SelectSeq(l, LAMBDA e_l : e_l.at = "propagate_followers")

\* every partition of every point has a Leader
HasLeaderIn(points) ==
    \A k \in 1..Len(points) :
       \A X \in DOMAIN points[k].Leader :
          points[k].Leader[X] # <<>> /\ points[k].n_leader[X] >= 1

\* no loop of leader -> follower transitions has emptied a Leader list
DemotionLeavesLeaderIn(F) ==
    \A k \in 1..Len(F) : F[k].Leader_after # <<>> /\ F[k].n_leader_after >= 1

\* C37: every partition has at least one Leader after every split, after
\* every loop of leader -> follower transitions, after every step of the
\* analysis and at termination
HasLeader == HasLeaderIn(Points) /\ DemotionLeavesLeaderIn(FollowedOf(log))

\* a loop of leader -> follower transitions has taken Leaders and left one,
\* and a split has left a partition with one Leader
HasLeaderWitness ==
    /\ \E k \in 1..Len(log) :
          /\ log[k].at = "propagate_followers"
          /\ Len(log[k].Leader_after) < Len(log[k].Leader)
          /\ Len(log[k].Leader_after) = 1
    /\ \E k \in 1..Len(Points) :
          /\ Points[k].at \in {"split", "split_no_followers"}
          /\ \E X \in DOMAIN Points[k].Leader : Len(Points[k].Leader[X]) = 1

\* the nodes whose type compute would change now
Unstable == {n \in DOMAIN node : compute(State, n) # node[n].type}

\* C38: at termination compute(n) leaves the type of every node n as it is
FixedPoint == pc = "done" => Unstable = {}

\* the analysis has ended with a Phi of constant type, a node that fell to
\* Bottom and an unreachable Block, and compute changes no type
FixedPointWitness ==
    /\ pc = "done"
    /\ Unstable = {}
    /\ \E n \in DOMAIN node : is_Phi(n) /\ tarval_is_constant(node[n].type)
    /\ \E n \in DOMAIN node : node[n].type = tarval_bottom
    /\ \E n \in DOMAIN node : is_Block(n) /\ node[n].type = tarval_unreachable

\* the places of the partition X in the list wl
Links_of(wl, X) == {k \in 1..Len(wl) : wl[k] = X}

\* X is linked into wl if and only if its flag is set, and at most once
FlagsAgree(wl, flag) ==
    \A X \in DOMAIN flag :
       /\ Cardinality(Links_of(wl, X)) <= 1
       /\ flag[X] = 1 <=> Links_of(wl, X) # {}

WorklistFlags ==
    /\ FlagsAgree(env.worklist, [X \in DOMAIN partition |-> partition[X].on_worklist])
    /\ \A k \in 1..Len(log) :
          log[k].at = "split" => FlagsAgree(log[k].worklist, log[k].on_worklist)
    /\ "add_to_worklist" \notin env.panic

\* a step of cause_splits: the first partition of the worklist is unlinked
\* and its flag cleared before the first split, or for good if there is none
CauseSplitsPops ==
    (pc \in {"analysis", "analysis again"} /\ env.cprop = <<>> /\ env.worklist # <<>>)
       => IF SplitsOf(log') = <<>>
          THEN /\ env'.worklist = Tail(env.worklist)
               /\ partition'[Head(env.worklist)].on_worklist = 0
          ELSE /\ SplitsOf(log')[1].worklist = Tail(env.worklist)
               /\ SplitsOf(log')[1].on_worklist[Head(env.worklist)] = 0

\* C39: a partition is linked into env.worklist if and only if its
\* on_worklist flag is 1, no partition is linked twice, the assertion of
\* add_to_worklist never fails, and cause_splits unlinks the partition it pops
\* and clears its flag
WorklistLinked == []WorklistFlags /\ [][CauseSplitsPops]_vars

\* cause_splits has popped a partition and a split has put it back on the
\* worklist, next to another partition
WorklistLinkedWitness ==
    /\ WorklistFlags
    /\ Len(env.worklist) >= 2
    /\ \E k \in 1..Len(log) :
          /\ log[k].at = "update_worklist"
          /\ log[k].added = log[k].Z
          /\ log[k].Z \notin Range(SplitsOf(log)[1].worklist)
          /\ log[k].Z \in Range(env.worklist)

=============================================================================
